---- MODULE Spec2Model ----
(***************************************************************************)
(* A model of the scoring and annotation engine of task-prioritizer        *)
(* (src/task_prioritizer/main.py) and of the configuration it reads        *)
(* (src/task_prioritizer/config.py).                                       *)
(*                                                                         *)
(* Numbers.  A Python float x is modelled by the integer x * Scale, with   *)
(* Scale = 10000.  Ratings, weights and thresholds are drawn as multiples  *)
(* of 0.01, so that every product rating * weight is again an integer and  *)
(* the weighted sums are exact; binary floating-point rounding is not      *)
(* modelled.  Minutes are plain integers.                                  *)
(*                                                                         *)
(* Strings.  A Python str is modelled by the sequence of its code points,  *)
(* each written as a one-element TLA+ string: "a", "{", " " ... and, for   *)
(* the glyphs, the code point's name, "<2B50>", "<FE0F>", "<1F381>" ...    *)
(* A fixed text that the code only concatenates (an archetype sentence) is *)
(* one element of the sequence.                                            *)
(*                                                                         *)
(* Optional values.  Python's None is modelled by None (an Optional[int]   *)
(* that is never negative) and by NoList (an Optional[List[float]]).       *)
(***************************************************************************)
EXTENDS Integers, Sequences, FiniteSets, TLC

VARIABLES
    environ,    \* os.environ, restricted to the keys Config.reload reads
    Config,     \* the attributes of class Config
    pc,         \* where the calling program stands: "idle", then per specification
    calls,      \* the calls of core functions made so far, each with its result
    local       \* the local variables of the functions that wait for input()

vars == <<environ, Config, pc, calls, local>>

----------------------------------------------------------------------------
(* Numbers *)

Scale == 100 * 100

\* The float written h/100, e.g. Dec(75) for 0.75.
Dec(h) == h * 100

\* The product of two floats (exact for multiples of 0.01).
Mul(a, b) == (a * b) \div Scale

None == 0 - 1

NoList == [isNone |-> TRUE, list |-> <<>>]

Some(l) == [isNone |-> FALSE, list |-> l]

----------------------------------------------------------------------------
(* config.py: the environment *)

RatingKeys == {"0", "1", "2", "3"}

EnvKeys ==
    { "RATING_0", "RATING_1", "RATING_2", "RATING_3",
      "WEIGHT_IMPACT_LEVERAGE", "WEIGHT_IMPACT_CONFIDENCE", "WEIGHT_IMPACT_GOALS",
      "WEIGHT_URGENCY_PRIORITY", "WEIGHT_URGENCY_DEADLINE",
      "WEIGHT_EXECUTION_COMPLEX", "WEIGHT_EXECUTION_TIME",
      "WEIGHT_EXECUTION_RISK", "WEIGHT_EXECUTION_FUN",
      "TIME_THRESHOLD_LOW", "TIME_THRESHOLD_MED", "TIME_THRESHOLD_HIGH",
      "THRESHOLD_IMPACT_3STAR", "THRESHOLD_IMPACT_2STAR", "THRESHOLD_IMPACT_1STAR",
      "THRESHOLD_URGENCY_HIGH", "THRESHOLD_EXECUTION_HIGH",
      "THRESHOLD_SURPRISE", "THRESHOLD_PLANNED", "STOP_RULE_FACTOR",
      "ARCHETYPE_QUICK_WIN", "ARCHETYPE_BIG_BET", "ARCHETYPE_FILLER", "ARCHETYPE_SLOG",
      "DEMO_TASK", "DEMO_RATINGS" }

\* The value of an environment variable: not set, or a string s.  The string
\* is the decimal form of the number v / Scale (k = "num"), or one that float()
\* and int() reject (k = "text").  Only the text of the latter is modelled.
Unset == [k |-> "unset", v |-> 0, s |-> ""]

Text(t) == [k |-> "text", v |-> 0, s |-> t]

Junk == Text("abc")

Num(h) == [k |-> "num", v |-> Dec(h), s |-> ""]

\* An integer literal, as int() accepts it.
IntLit(n) == [k |-> "num", v |-> n * Scale, s |-> ""]

\* The code points of the texts that are parsed (the demo task and the demo
\* ratings, by default and as the environments set them).
CodePoints(text) ==
    CASE text = "Demo task for automated testing" ->
           <<"D", "e", "m", "o", " ", "t", "a", "s", "k", " ", "f", "o", "r", " ", "a", "u", "t", "o", "m", "a", "t", "e", "d", " ", "t", "e", "s", "t", "i", "n", "g">>
      [] text = "2,2,2,1,1,1,1,1,2,1,2" ->
           <<"2", ",", "2", ",", "2", ",", "1", ",", "1", ",", "1", ",", "1", ",", "1", ",", "2", ",", "1", ",", "2">>
      [] text = "{p1:05} Demo" ->
           <<"{", "p", "1", ":", "0", "5", "}", " ", "D", "e", "m", "o">>
      [] text = "3,3,3,3,3,3,_,3,3,3,3" ->
           <<"3", ",", "3", ",", "3", ",", "3", ",", "3", ",", "3", ",", "_", ",", "3", ",", "3", ",", "3", ",", "3">>
      [] text = "{a} Demo" ->
           <<"{", "a", "}", " ", "D", "e", "m", "o">>
      [] text = "3,3,3,3,3,3,3,0,3,0,3" ->
           <<"3", ",", "3", ",", "3", ",", "3", ",", "3", ",", "3", ",", "3", ",", "0", ",", "3", ",", "0", ",", "3">>
      [] text = "2,2" ->
           <<"2", ",", "2">>

\* os.environ.get(key, default), for the keys that hold free text
os_environ_get(key, default) ==
    IF environ[key].k = "unset" THEN default ELSE environ[key].s

_get_float(key, default) ==
    IF environ[key].k = "unset" THEN default
    ELSE IF environ[key].k = "num" THEN environ[key].v
    ELSE default

\* int() raises ValueError on a string with a fractional part.
_get_int(key, default) ==
    IF environ[key].k = "unset" THEN default
    ELSE IF environ[key].k = "num" /\ environ[key].v % Scale = 0
         THEN environ[key].v \div Scale
    ELSE default

\* The code points of the glyphs of Config.SYMBOLS.
SYMBOLS ==
    [ urgency_high   |-> <<"<1F6A8>">>,
      urgency_low    |-> <<"<1F422>">>,
      execution_high |-> <<"<1F975>">>,
      execution_low  |-> <<"<1F36D>">>,
      planned_yes    |-> <<"<1F5D3>", "<FE0F>">>,
      planned_no     |-> <<"<1F3B2>">>,
      surprise       |-> <<"<1F381>">>,
      star           |-> <<"<2B50>", "<FE0F>">> ]

abs(x) == IF x < 0 THEN 0 - x ELSE x

DecimalDigits == <<"0", "1", "2", "3", "4", "5", "6", "7", "8", "9">>

\* The decimal digits of a natural number.
RECURSIVE NatStr(_)
NatStr(n) ==
    IF n < 10 THEN <<DecimalDigits[n + 1]>>
    ELSE NatStr(n \div 10) \o <<DecimalDigits[(n % 10) + 1]>>

\* The digits after the point of str(float): the fraction (in units of
\* 1 / Scale, `width` digits) without its trailing zeros, but at least one digit.
RECURSIVE FractionStr(_, _)
FractionStr(fraction, width) ==
    IF width > 1 /\ fraction % 10 = 0 THEN FractionStr(fraction \div 10, width - 1)
    ELSE IF width > 1
         THEN FractionStr(fraction \div 10, width - 1) \o <<DecimalDigits[(fraction % 10) + 1]>>
    ELSE <<DecimalDigits[(fraction % 10) + 1]>>

\* "%g" of a float: no fraction for a whole number.
float_str_g(x) ==
    (IF x < 0 THEN <<"-">> ELSE <<>>) \o NatStr(abs(x) \div Scale)
        \o (IF abs(x) % Scale = 0 THEN <<>>
            ELSE <<".">> \o FractionStr(abs(x) % Scale, 4))

\* str() of a float that str() prints without an exponent: "0.3", "1.0",
\* "-0.5", "0.25".
float_str(x) ==
    (IF x < 0 THEN <<"-">> ELSE <<>>)
        \o NatStr(abs(x) \div Scale) \o <<".">> \o FractionStr(abs(x) % Scale, 4)

\* f"{x:.2f}" of a float that is not halfway between two multiples of 0.01.
Format2f(x) ==
    LET hundredths == (abs(x) + 50) \div 100
    IN  (IF x < 0 THEN <<"-">> ELSE <<>>)
            \o NatStr(hundredths \div 100) \o <<".">>
            \o <<DecimalDigits[((hundredths % 100) \div 10) + 1],
                 DecimalDigits[(hundredths % 10) + 1]>>

\* Config.reload(): every attribute is read again from the environment.
Reload ==
    [ RATING_MAP |->
        [ key \in RatingKeys |->
            CASE key = "0" -> _get_float("RATING_0", Dec(0))
              [] key = "1" -> _get_float("RATING_1", Dec(30))
              [] key = "2" -> _get_float("RATING_2", Dec(60))
              [] key = "3" -> _get_float("RATING_3", Dec(100)) ],
      DISPLAY_MAP |->
        [ key \in RatingKeys |->
            float_str(CASE key = "0" -> _get_float("RATING_0", Dec(0))
                        [] key = "1" -> _get_float("RATING_1", Dec(30))
                        [] key = "2" -> _get_float("RATING_2", Dec(60))
                        [] key = "3" -> _get_float("RATING_3", Dec(100))) ],
      WEIGHTS |->
        [ impact |->
            [ leverage   |-> _get_float("WEIGHT_IMPACT_LEVERAGE", Dec(50)),
              confidence |-> _get_float("WEIGHT_IMPACT_CONFIDENCE", Dec(25)),
              goals      |-> _get_float("WEIGHT_IMPACT_GOALS", Dec(25)) ],
          urgency |->
            [ priority |-> _get_float("WEIGHT_URGENCY_PRIORITY", Dec(50)),
              deadline |-> _get_float("WEIGHT_URGENCY_DEADLINE", Dec(50)) ],
          execution |->
            [ complex |-> _get_float("WEIGHT_EXECUTION_COMPLEX", Dec(40)),
              time    |-> _get_float("WEIGHT_EXECUTION_TIME", Dec(30)),
              risk    |-> _get_float("WEIGHT_EXECUTION_RISK", Dec(20)),
              fun     |-> _get_float("WEIGHT_EXECUTION_FUN", Dec(10)) ] ],
      TIME_THRESHOLDS |->
        [ low  |-> _get_int("TIME_THRESHOLD_LOW", 30),
          med  |-> _get_int("TIME_THRESHOLD_MED", 90),
          high |-> _get_int("TIME_THRESHOLD_HIGH", 150) ],
      THRESHOLD_IMPACT_3STAR   |-> _get_float("THRESHOLD_IMPACT_3STAR", Dec(75)),
      THRESHOLD_IMPACT_2STAR   |-> _get_float("THRESHOLD_IMPACT_2STAR", Dec(50)),
      THRESHOLD_IMPACT_1STAR   |-> _get_float("THRESHOLD_IMPACT_1STAR", Dec(25)),
      THRESHOLD_URGENCY_HIGH   |-> _get_float("THRESHOLD_URGENCY_HIGH", Dec(50)),
      THRESHOLD_EXECUTION_HIGH |-> _get_float("THRESHOLD_EXECUTION_HIGH", Dec(50)),
      THRESHOLD_SURPRISE       |-> _get_float("THRESHOLD_SURPRISE", Dec(50)),
      THRESHOLD_PLANNED        |-> _get_float("THRESHOLD_PLANNED", Dec(50)),
      STOP_RULE_FACTOR         |-> _get_float("STOP_RULE_FACTOR", Dec(150)),
      SYMBOLS |-> SYMBOLS,
      ARCHETYPES |->
        [ quick_win |-> os_environ_get("ARCHETYPE_QUICK_WIN",
                            "High leverage for low friction<2014>a pure Quick Win."),
          big_bet   |-> os_environ_get("ARCHETYPE_BIG_BET",
                            "High value, but demanding. Schedule deep work for this."),
          filler    |-> os_environ_get("ARCHETYPE_FILLER",
                            "Easy, but low leverage. Good for low-energy blocks."),
          slog      |-> os_environ_get("ARCHETYPE_SLOG",
                            "Hard work for little return. Can you eliminate or automate?") ],
      DEMO_TASK    |-> os_environ_get("DEMO_TASK", "Demo task for automated testing"),
      DEMO_RATINGS |-> os_environ_get("DEMO_RATINGS", "2,2,2,1,1,1,1,1,2,1,2") ]

\* The environments the process is started in.  Each is the empty environment
\* (every default applies) with a few variables set.
NoEnv == [key \in EnvKeys |-> Unset]

EnvOverrides ==
    { \* nothing set: the default configuration
      <<>>,
      \* another valid configuration
      ( "RATING_1" :> Num(25) @@ "RATING_2" :> Num(50) @@
        "WEIGHT_IMPACT_LEVERAGE" :> Num(40) @@ "WEIGHT_IMPACT_CONFIDENCE" :> Num(30) @@
        "WEIGHT_IMPACT_GOALS" :> Num(30) @@
        "WEIGHT_URGENCY_PRIORITY" :> Num(70) @@ "WEIGHT_URGENCY_DEADLINE" :> Num(30) @@
        "WEIGHT_EXECUTION_COMPLEX" :> Num(25) @@ "WEIGHT_EXECUTION_TIME" :> Num(25) @@
        "WEIGHT_EXECUTION_RISK" :> Num(25) @@ "WEIGHT_EXECUTION_FUN" :> Num(25) @@
        "TIME_THRESHOLD_LOW" :> IntLit(15) @@ "TIME_THRESHOLD_MED" :> IntLit(45) @@
        "TIME_THRESHOLD_HIGH" :> IntLit(60) @@
        "THRESHOLD_IMPACT_3STAR" :> Num(80) @@ "THRESHOLD_IMPACT_2STAR" :> Num(60) @@
        "THRESHOLD_IMPACT_1STAR" :> Num(20) @@
        "THRESHOLD_URGENCY_HIGH" :> Num(60) @@ "THRESHOLD_EXECUTION_HIGH" :> Num(40) @@
        "THRESHOLD_SURPRISE" :> Num(30) @@ "THRESHOLD_PLANNED" :> Num(100) @@
        "ARCHETYPE_SLOG" :> Text("Drop it.") @@ "ARCHETYPE_FILLER" :> Text("") ),
      \* weights that do not sum to 1.0 (Config.validate reports them)
      ( "WEIGHT_IMPACT_LEVERAGE" :> Num(60) @@ "WEIGHT_URGENCY_PRIORITY" :> Num(40) @@
        "WEIGHT_EXECUTION_FUN" :> Num(30) ),
      \* weights that sum to 1.0, some of them negative
      ( "WEIGHT_IMPACT_LEVERAGE" :> Num(120) @@ "WEIGHT_IMPACT_CONFIDENCE" :> Num(0 - 10) @@
        "WEIGHT_IMPACT_GOALS" :> Num(0 - 10) @@
        "WEIGHT_URGENCY_PRIORITY" :> Num(150) @@ "WEIGHT_URGENCY_DEADLINE" :> Num(0 - 50) @@
        "WEIGHT_EXECUTION_COMPLEX" :> Num(100) @@ "WEIGHT_EXECUTION_TIME" :> Num(50) @@
        "WEIGHT_EXECUTION_RISK" :> Num(0 - 30) @@ "WEIGHT_EXECUTION_FUN" :> Num(0 - 20) ),
      \* strings float() or int() reject: the defaults apply
      ( "RATING_3" :> Junk @@ "WEIGHT_IMPACT_GOALS" :> Junk @@
        "TIME_THRESHOLD_LOW" :> Num(4550) @@ "TIME_THRESHOLD_HIGH" :> Junk @@
        "THRESHOLD_URGENCY_HIGH" :> Junk @@ "TIME_THRESHOLD_MED" :> IntLit(120) ),
      \* cut points out of their named order, a rating scale that is not increasing
      ( "TIME_THRESHOLD_LOW" :> IntLit(100) @@ "TIME_THRESHOLD_MED" :> IntLit(40) @@
        "THRESHOLD_IMPACT_3STAR" :> Num(25) @@ "THRESHOLD_IMPACT_1STAR" :> Num(75) @@
        "RATING_0" :> Num(100) @@ "RATING_3" :> Num(0) ),
      \* ratings outside [0, 1]
      ( "RATING_0" :> Num(0 - 50) @@ "RATING_3" :> Num(150) ),
      \* cut points of the symbols above the 0.5 the analysis text compares with
      ( "THRESHOLD_EXECUTION_HIGH" :> Num(60) @@ "THRESHOLD_URGENCY_HIGH" :> Num(80) @@
        "THRESHOLD_SURPRISE" :> Num(70) ) }

Envs == { [key \in EnvKeys |-> IF key \in DOMAIN o THEN o[key] ELSE Unset] : o \in EnvOverrides }

\* Config.validate returning after the first error it finds.
validate_first_error_only ==
    LET impact_sum == Config.WEIGHTS.impact.leverage + Config.WEIGHTS.impact.confidence
                      + Config.WEIGHTS.impact.goals
        urgency_sum == Config.WEIGHTS.urgency.priority + Config.WEIGHTS.urgency.deadline
        exec_sum == Config.WEIGHTS.execution.complex + Config.WEIGHTS.execution.time
                    + Config.WEIGHTS.execution.risk + Config.WEIGHTS.execution.fun
    IN  IF abs(impact_sum - Scale) > Dec(1)
        THEN << <<"Impact weights must sum to 1.0, got ">> \o Format2f(impact_sum) >>
        ELSE IF abs(urgency_sum - Scale) > Dec(1)
        THEN << <<"Urgency weights must sum to 1.0, got ">> \o Format2f(urgency_sum) >>
        ELSE IF abs(exec_sum - Scale) > Dec(1)
        THEN << <<"Execution weights must sum to 1.0, got ">> \o Format2f(exec_sum) >>
        ELSE <<>>

\* Config.validate(): the list of error messages.  A message is its fixed
\* text, as one element, followed by the code points of the formatted sum.
validate ==
    LET impact_sum == Config.WEIGHTS.impact.leverage + Config.WEIGHTS.impact.confidence
                      + Config.WEIGHTS.impact.goals
        urgency_sum == Config.WEIGHTS.urgency.priority + Config.WEIGHTS.urgency.deadline
        exec_sum == Config.WEIGHTS.execution.complex + Config.WEIGHTS.execution.time
                    + Config.WEIGHTS.execution.risk + Config.WEIGHTS.execution.fun
    IN  (IF abs(impact_sum - Scale) > Dec(1)
         THEN << <<"Impact weights must sum to 1.0, got ">> \o Format2f(impact_sum) >>
         ELSE <<>>)
        \o (IF abs(urgency_sum - Scale) > Dec(1)
            THEN << <<"Urgency weights must sum to 1.0, got ">> \o Format2f(urgency_sum) >>
            ELSE <<>>)
        \o (IF abs(exec_sum - Scale) > Dec(1)
            THEN << <<"Execution weights must sum to 1.0, got ">> \o Format2f(exec_sum) >>
            ELSE <<>>)

----------------------------------------------------------------------------
(* main.py: the time-to-rating mapper, the scorers and the symbol selectors *)

\* get_time_score with the bounds exclusive.
get_time_score_exclusive(minutes) ==
    LET thresholds == Config.TIME_THRESHOLDS
        rating_map == Config.RATING_MAP
    IN  IF minutes < thresholds.low THEN rating_map["0"]
        ELSE IF minutes < thresholds.med THEN rating_map["1"]
        ELSE IF minutes < thresholds.high THEN rating_map["2"]
        ELSE rating_map["3"]

get_time_score(minutes) ==
    LET thresholds == Config.TIME_THRESHOLDS
        rating_map == Config.RATING_MAP
    IN  IF minutes <= thresholds.low THEN rating_map["0"]
        ELSE IF minutes <= thresholds.med THEN rating_map["1"]
        ELSE IF minutes <= thresholds.high THEN rating_map["2"]
        ELSE rating_map["3"]

\* A float that is a multiple of 0.01, in hundredths.
Hundredths(x) == x \div 100

\* math.ceil(n / d) for d > 0
ceil(n, d) == 0 - ((0 - n) \div d)

\* base_times.get(r_complex, 45)
base_times_get(r_complex) ==
    IF r_complex = Dec(0) THEN 15
    ELSE IF r_complex = Dec(30) THEN 45
    ELSE IF r_complex = Dec(60) THEN 90
    ELSE IF r_complex = Dec(100) THEN 180
    ELSE 45

\* base * risk_factor * surprise_factor in millionths of a minute, for a risk
\* and a surprise that are multiples of 0.01: the factors 1 + r_risk * 0.3 and
\* 1 + r_surprise * 0.2 are in thousandths.
raw_minutes(r_complex, r_risk, r_surprise) ==
    base_times_get(r_complex) * (1000 + Hundredths(r_risk) * 3)
        * (1000 + Hundredths(r_surprise) * 2)

\* estimate_time_minutes rounding down to a multiple of 5.
estimate_time_minutes_floor(r_complex, r_risk, r_surprise) ==
    (raw_minutes(r_complex, r_risk, r_surprise) \div (5 * 1000 * 1000)) * 5

estimate_time_minutes(r_complex, r_risk, r_surprise) ==
    ceil(raw_minutes(r_complex, r_risk, r_surprise), 5 * 1000 * 1000) * 5

compute_impact(r_leverage, r_confidence, r_goals) ==
    LET w == Config.WEIGHTS.impact
    IN  Mul(r_leverage, w.leverage) + Mul(r_confidence, w.confidence) + Mul(r_goals, w.goals)

\* compute_urgency with the deadline weighted by the priority weight.
compute_urgency_one_weight(r_priority, r_deadline) ==
    LET w == Config.WEIGHTS.urgency
    IN  Mul(r_priority, w.priority) + Mul(r_deadline, w.priority)

compute_urgency(r_priority, r_deadline) ==
    LET w == Config.WEIGHTS.urgency
    IN  Mul(r_priority, w.priority) + Mul(r_deadline, w.deadline)

\* compute_execution with the fun rating unweighted.
compute_execution_unweighted_fun(r_complex, r_time, r_risk, r_fun) ==
    LET w == Config.WEIGHTS.execution
    IN  Mul(r_complex, w.complex) + Mul(r_time, w.time) + Mul(r_risk, w.risk) + r_fun

compute_execution(r_complex, r_time, r_risk, r_fun) ==
    LET w == Config.WEIGHTS.execution
    IN  Mul(r_complex, w.complex) + Mul(r_time, w.time) + Mul(r_risk, w.risk) + Mul(r_fun, w.fun)

\* star * n
Stars(n) == IF n = 0 THEN <<>> ELSE IF n = 1 THEN Config.SYMBOLS.star
            ELSE IF n = 2 THEN Config.SYMBOLS.star \o Config.SYMBOLS.star
            ELSE Config.SYMBOLS.star \o Config.SYMBOLS.star \o Config.SYMBOLS.star

\* get_impact_symbol with inclusive comparisons.
get_impact_symbol_inclusive(score) ==
    IF score >= Config.THRESHOLD_IMPACT_3STAR THEN Stars(3)
    ELSE IF score >= Config.THRESHOLD_IMPACT_2STAR THEN Stars(2)
    ELSE IF score >= Config.THRESHOLD_IMPACT_1STAR THEN Stars(1)
    ELSE <<>>

get_impact_symbol(score) ==
    IF score > Config.THRESHOLD_IMPACT_3STAR THEN Stars(3)
    ELSE IF score > Config.THRESHOLD_IMPACT_2STAR THEN Stars(2)
    ELSE IF score > Config.THRESHOLD_IMPACT_1STAR THEN Stars(1)
    ELSE <<>>

get_urgency_symbol(score) ==
    IF score >= Config.THRESHOLD_URGENCY_HIGH THEN Config.SYMBOLS.urgency_high
    ELSE Config.SYMBOLS.urgency_low

\* get_execution_symbol with a strict comparison.
get_execution_symbol_strict(score) ==
    IF score > Config.THRESHOLD_EXECUTION_HIGH THEN Config.SYMBOLS.execution_high
    ELSE Config.SYMBOLS.execution_low

get_execution_symbol(score) ==
    IF score >= Config.THRESHOLD_EXECUTION_HIGH THEN Config.SYMBOLS.execution_high
    ELSE Config.SYMBOLS.execution_low

get_surprise_symbol(rating) ==
    IF rating >= Config.THRESHOLD_SURPRISE THEN Config.SYMBOLS.surprise
    ELSE <<>>

\* get_planned_symbol with a strict comparison.
get_planned_symbol_strict(rating) ==
    IF rating > Config.THRESHOLD_PLANNED THEN Config.SYMBOLS.planned_yes
    ELSE Config.SYMBOLS.planned_no

get_planned_symbol(rating) ==
    IF rating >= Config.THRESHOLD_PLANNED THEN Config.SYMBOLS.planned_yes
    ELSE Config.SYMBOLS.planned_no

----------------------------------------------------------------------------
(* Python's str and re, as far as main.py uses them *)

\* str.isspace(), for the code points the inputs use.
Whitespace == {" ", "\t", "\n"}

Digits == <<"0", "1", "2", "3", "4", "5", "6", "7", "8", "9">>

IsDigit(c) == \E i \in 1..Len(Digits) : Digits[i] = c

DigitValue(c) == (CHOOSE i \in 1..Len(Digits) : Digits[i] = c) - 1

\* s[n:]
Drop(s, n) == SubSeq(s, n + 1, Len(s))

startswith(s, token) == Len(token) <= Len(s) /\ SubSeq(s, 1, Len(token)) = token

RECURSIVE lstrip(_)
lstrip(s) ==
    IF s = <<>> THEN <<>>
    ELSE IF Head(s) \in Whitespace THEN lstrip(Tail(s))
    ELSE s

RECURSIVE rstrip(_)
rstrip(s) ==
    IF s = <<>> THEN <<>>
    ELSE IF s[Len(s)] \in Whitespace THEN rstrip(SubSeq(s, 1, Len(s) - 1))
    ELSE s

strip(s) == rstrip(lstrip(s))

\* The longest string of digits int() converts: longer ones raise ValueError
\* (sys.int_info.default_max_str_digits of the interpreter, 4300).
int_max_str_digits == 43 * 100

\* int() of a string of decimal digits no longer than int_max_str_digits
RECURSIVE int(_)
int(s) ==
    IF s = <<>> THEN 0
    ELSE 10 * int(SubSeq(s, 1, Len(s) - 1)) + DigitValue(s[Len(s)])

\* str() of a natural number
RECURSIVE str(_)
str(n) ==
    IF n < 0 THEN <<"-">> \o str(0 - n)
    ELSE IF n < 10 THEN <<Digits[n + 1]>>
    ELSE str(n \div 10) \o <<Digits[(n % 10) + 1]>>

\* f"{m:02d}" of a natural number
Format02d(m) == IF m < 10 THEN <<"0">> \o str(m) ELSE str(m)

\* The index of the first code point of s at or after i that is not in the
\* set skip (Len(s) + 1 when there is none).
RECURSIVE SkipWhile(_, _, _)
SkipWhile(s, i, skip) ==
    IF i <= Len(s) /\ s[i] \in skip THEN SkipWhile(s, i + 1, skip) ELSE i

\* The least element of a non-empty set of indexes.
Min(indexes) == CHOOSE x \in indexes : \A y \in indexes : x <= y

\* The index of the first code point of s at or after i that is not a digit
\* (Len(s) + 1 when there is none).
SkipDigits(s, i) ==
    LET stops == { j \in i..Len(s) : ~IsDigit(s[j]) }
    IN  IF stops = {} THEN Len(s) + 1 ELSE Min(stops)

\* The index of the first c in s at or after i (Len(s) + 1 when there is none).
IndexOf(s, i, c) ==
    LET hits == { j \in i..Len(s) : s[j] = c }
    IN  IF hits = {} THEN Len(s) + 1 ELSE Min(hits)

\* One iteration of the group (\s*\{[^}]+\}) read from index i: the index after
\* it, or 0 when the group does not match there.  \s* and [^}]+ are greedy and
\* what follows each cannot match what it consumed, so there is one way to match.
TagGroupEnd(s, i) ==
    LET open == SkipWhile(s, i, Whitespace)
        close == IndexOf(s, open + 1, "}")
    IN  IF open <= Len(s) /\ s[open] = "{" /\ close <= Len(s) /\ close > open + 1
        THEN close + 1
        ELSE 0

\* The index after the longest run of groups read from index i.
RECURSIVE TagRunEnd(_, _)
TagRunEnd(s, i) ==
    IF TagGroupEnd(s, i) = 0 THEN i ELSE TagRunEnd(s, TagGroupEnd(s, i))

\* re.compile(r'^(\s*\{[^}]+\})+').match(s): match.end(), or None.
tag_pattern_match(s) ==
    IF TagGroupEnd(s, 1) = 0 THEN None ELSE TagRunEnd(s, 1) - 1

\* Whether r'\{p(\d+):(\d{2})\}' matches s at index i.
TimeTagAt(s, i) ==
    LET colon == SkipDigits(s, i + 2)
    IN  /\ i + 6 <= Len(s)
        /\ s[i] = "{"
        /\ s[i + 1] = "p"
        /\ colon > i + 2
        /\ colon + 3 <= Len(s)
        /\ s[colon] = ":"
        /\ IsDigit(s[colon + 1])
        /\ IsDigit(s[colon + 2])
        /\ s[colon + 3] = "}"

\* re.compile(r'\{p(\d+):(\d{2})\}').search(s): the groups of the leftmost
\* match, or None.
time_pattern_search(s) ==
    LET hits == { i \in 1..Len(s) : TimeTagAt(s, i) }
    IN  IF hits = {} THEN [isNone |-> TRUE, groups |-> <<>>]
        ELSE LET i == CHOOSE x \in hits : \A y \in hits : x <= y
                 colon == SkipDigits(s, i + 2)
             IN  [ isNone |-> FALSE,
                   groups |-> <<SubSeq(s, i + 2, colon - 1), SubSeq(s, colon + 1, colon + 2)>> ]

----------------------------------------------------------------------------
(* main.py: the task-string parser and the output assembler *)

\* The first token of symbols that s starts with (0 when there is none): the
\* for loop of _strip_leading_symbols, which breaks at the first match.
FirstToken(s, symbols) ==
    LET hits == { i \in 1..Len(symbols) : startswith(s, symbols[i]) }
    IN  IF hits = {} THEN 0 ELSE CHOOSE x \in hits : \A y \in hits : x <= y

\* The while loop of _strip_leading_symbols.
RECURSIVE StripLoop(_, _)
StripLoop(cleaned, symbols) ==
    IF cleaned = <<>> \/ FirstToken(cleaned, symbols) = 0 THEN cleaned
    ELSE StripLoop(lstrip(Drop(cleaned, Len(symbols[FirstToken(cleaned, symbols)]))), symbols)

\* _strip_leading_symbols without the while loop: one token is stripped.
_strip_leading_symbols_once(task_str) ==
    LET symbols == << Config.SYMBOLS.star, Config.SYMBOLS.surprise,
                      Config.SYMBOLS.planned_yes, Config.SYMBOLS.planned_no,
                      <<"-", "-">> >>
        cleaned == lstrip(task_str)
    IN  IF cleaned = <<>> \/ FirstToken(cleaned, symbols) = 0 THEN cleaned
        ELSE lstrip(Drop(cleaned, Len(symbols[FirstToken(cleaned, symbols)])))

_strip_leading_symbols(task_str) ==
    LET symbols == << Config.SYMBOLS.star, Config.SYMBOLS.surprise,
                      Config.SYMBOLS.planned_yes, Config.SYMBOLS.planned_no,
                      <<"-", "-">> >>
    IN  StripLoop(lstrip(task_str), symbols)

parse_task(task_str) ==
    LET stripped == _strip_leading_symbols(task_str)
        end == tag_pattern_match(stripped)
        time_match == time_pattern_search(stripped)
    IN  IF ~time_match.isNone /\ Len(time_match.groups[1]) > int_max_str_digits
        THEN [ raised |-> "ValueError" ]
        ELSE [ raised |-> "",
               tags |-> IF end # None THEN strip(SubSeq(stripped, 1, end)) ELSE <<>>,
               text |-> IF end # None THEN strip(Drop(stripped, end)) ELSE stripped,
               planned_minutes |->
                   IF ~time_match.isNone
                   THEN int(time_match.groups[1]) * 60 + int(time_match.groups[2])
                   ELSE None ]

\* format_output with a single dash on each side of the surprise symbol.
format_output_single_dashes(impact_sym, surprise_sym, planned_sym, tags, text) ==
    LET final_prefix == impact_sym \o <<"-">> \o surprise_sym \o <<"-">> \o planned_sym
    IN  IF tags # <<>> THEN final_prefix \o tags \o <<" ">> \o text
        ELSE final_prefix \o <<" ">> \o text

\* format_output with the separator emitted in every case.
format_output_always_separator(impact_sym, surprise_sym, planned_sym, tags, text) ==
    LET final_prefix == impact_sym \o surprise_sym \o <<"-", "-">> \o planned_sym
    IN  IF tags # <<>> THEN final_prefix \o tags \o <<" ">> \o text
        ELSE final_prefix \o <<" ">> \o text

format_output(impact_sym, surprise_sym, planned_sym, tags, text) ==
    LET prefix_part_1 == impact_sym \o surprise_sym
        separator == IF impact_sym # <<>> \/ surprise_sym # <<>> THEN <<"-", "-">> ELSE <<>>
        final_prefix == prefix_part_1 \o separator \o planned_sym
    IN  IF tags # <<>> THEN final_prefix \o tags \o <<" ">> \o text
        ELSE final_prefix \o <<" ">> \o text

----------------------------------------------------------------------------
(* main.py: the analysis generator and run_with_ratings *)



\* get_analysis_text with the prefix decided at a fixed 0.5.
get_analysis_text_fixed_prefix(s_impact, s_execution, s_urgency, r_surprise) ==
    LET prefix == IF r_surprise >= Dec(50)
                  THEN <<"Scope is unclear (<1F381>). ">> ELSE <<>>
        high_impact == s_impact > Dec(50)
        high_execution == s_execution > Dec(50)
        core == IF high_impact /\ ~high_execution THEN Config.ARCHETYPES.quick_win
                ELSE IF high_impact /\ high_execution THEN Config.ARCHETYPES.big_bet
                ELSE IF ~high_impact /\ ~high_execution THEN Config.ARCHETYPES.filler
                ELSE Config.ARCHETYPES.slog
        suffix == IF s_urgency >= Config.THRESHOLD_URGENCY_HIGH
                  THEN <<" Critical priority.">> ELSE <<>>
    IN  prefix \o <<core>> \o suffix

get_analysis_text(s_impact, s_execution, s_urgency, r_surprise) ==
    LET prefix == IF r_surprise >= Config.THRESHOLD_SURPRISE
                  THEN <<"Scope is unclear (<1F381>). ">> ELSE <<>>
        high_impact == s_impact > Dec(50)
        high_execution == s_execution > Dec(50)
        core == IF high_impact /\ ~high_execution THEN Config.ARCHETYPES.quick_win
                ELSE IF high_impact /\ high_execution THEN Config.ARCHETYPES.big_bet
                ELSE IF ~high_impact /\ ~high_execution THEN Config.ARCHETYPES.filler
                ELSE Config.ARCHETYPES.slog
        suffix == IF s_urgency >= Config.THRESHOLD_URGENCY_HIGH
                  THEN <<" Critical priority.">> ELSE <<>>
    IN  prefix \o <<core>> \o suffix

\* f"{{p{h}:{m:02d}}}"
time_tag(estimated_mins) ==
    <<"{", "p">> \o str(estimated_mins \div 60) \o <<":">>
        \o Format02d(estimated_mins % 60) \o <<"}">>

\* The dictionary run_with_ratings returns for what parse_task returned and a
\* list of at least 11 ratings (those after the 11th are never read).
RunResult(parsed, ratings, estimated_mins) ==
    LET planned_mins == parsed.planned_minutes
        s_impact == compute_impact(ratings[1], ratings[2], ratings[3])
        s_urgency == compute_urgency(ratings[4], ratings[5])
        s_execution == compute_execution(ratings[6], ratings[7], ratings[8], ratings[9])
        r_surprise == ratings[10]
        r_planned == ratings[11]
        impact_sym == get_impact_symbol(s_impact)
        urgency_sym == get_urgency_symbol(s_urgency)
        execution_sym == get_execution_symbol(s_execution)
        surprise_sym == get_surprise_symbol(r_surprise)
        planned_sym == get_planned_symbol(r_planned)
        tags == IF planned_mins = None /\ estimated_mins # None
                THEN time_tag(estimated_mins) \o parsed.tags
                ELSE parsed.tags
    IN  [ raised |-> "",
          output |-> format_output(impact_sym, surprise_sym, planned_sym, tags, parsed.text),
          urgency_sym |-> urgency_sym,
          execution_sym |-> execution_sym,
          has_surprise |-> surprise_sym # <<>>,
          scores |-> [ impact |-> s_impact, urgency |-> s_urgency, execution |-> s_execution ],
          ratings |-> [ L |-> ratings[1], Conf |-> ratings[2], G |-> ratings[3],
                        P |-> ratings[4], D |-> ratings[5], C |-> ratings[6],
                        T |-> ratings[7], R |-> ratings[8], F |-> ratings[9],
                        S |-> ratings[10], Pl |-> ratings[11] ],
          symbols |-> [ impact |-> impact_sym, urgency |-> urgency_sym,
                        execution |-> execution_sym, surprise |-> surprise_sym,
                        planned |-> planned_sym ],
          estimated_time_minutes |-> estimated_mins,
          planned_time_minutes |-> planned_mins,
          analysis |-> get_analysis_text(s_impact, s_execution, s_urgency, r_surprise) ]

\* parse_task is called first and its ValueError is not caught. Unpacking
\* ratings[0:5], ratings[5:9], ratings[9:11] into 5, 4 and 2 names raises
\* ValueError when the list has fewer than 11 elements.
run_with_ratings(task_input, ratings, estimated_mins) ==
    LET parsed == parse_task(task_input)
    IN  IF parsed.raised # "" THEN [raised |-> "ValueError"]
        ELSE IF Len(ratings) < 11 THEN [raised |-> "ValueError"]
        ELSE RunResult(parsed, ratings, estimated_mins)

----------------------------------------------------------------------------
(* main.py: the rating parser *)

\* s.replace(" ", ""): only the space U+0020 is removed.
RECURSIVE RemoveSpaces(_)
RemoveSpaces(s) ==
    IF s = <<>> THEN <<>>
    ELSE IF Head(s) = " " THEN RemoveSpaces(Tail(s))
    ELSE <<Head(s)>> \o RemoveSpaces(Tail(s))

\* s.split(","): one part more than there are commas.
RECURSIVE split(_)
split(s) ==
    LET comma == IndexOf(s, 1, ",")
    IN  IF comma > Len(s) THEN <<s>>
        ELSE <<SubSeq(s, 1, comma - 1)>> \o split(Drop(s, comma))

\* p in Config.RATING_MAP, for a string p
InRatingMap(p) == Len(p) = 1 /\ p[1] \in DOMAIN Config.RATING_MAP

\* The loop body with a best-effort reading of a part it does not know.
RatingOfPart_best_effort(i, p, planned_mins) ==
    IF p = <<"_">> /\ i = 6 /\ planned_mins # None THEN <<get_time_score(planned_mins)>>
    ELSE IF InRatingMap(p) THEN <<Config.RATING_MAP[p[1]]>>
    ELSE <<Config.RATING_MAP["0"]>>

\* The body of the for loop of parse_ratings for part p at index i (from 0):
\* the rating appended, or None for `return None`.
RatingOfPart(i, p, planned_mins) ==
    IF p = <<"_">> /\ i = 6 /\ planned_mins # None THEN <<get_time_score(planned_mins)>>
    ELSE IF InRatingMap(p) THEN <<Config.RATING_MAP[p[1]]>>
    ELSE <<>>

\* parse_ratings with the underscore resolved at whatever index it stands.
parse_ratings_underscore_anywhere(ratings_str, planned_mins) ==
    LET parts == split(RemoveSpaces(ratings_str))
        each == [ i \in 1..Len(parts) |-> RatingOfPart(6, parts[i], planned_mins) ]
    IN  IF Len(parts) # 11 THEN NoList
        ELSE IF \E i \in 1..Len(parts) : each[i] = <<>> THEN NoList
        ELSE Some([ i \in 1..Len(parts) |-> each[i][1] ])

parse_ratings(ratings_str, planned_mins) ==
    LET parts == split(RemoveSpaces(ratings_str))
        each == [ i \in 1..Len(parts) |-> RatingOfPart(i - 1, parts[i], planned_mins) ]
    IN  IF Len(parts) # 11 THEN NoList
        ELSE IF \E i \in 1..Len(parts) : each[i] = <<>> THEN NoList
        ELSE Some([ i \in 1..Len(parts) |-> each[i][1] ])

----------------------------------------------------------------------------
(* main.py: the paths that process one task *)

\* What a path returns to its caller after run_with_ratings(task_input,
\* ratings, estimated_mins): the values of its local variables and the result.
Ran(task_input, planned_mins, ratings, estimated_mins) ==
    [ raised |-> "",
      planned_mins |-> planned_mins,
      ratings |-> ratings,
      estimated_mins |-> estimated_mins,
      result |-> run_with_ratings(task_input, ratings, estimated_mins) ]

\* run_batch_parsed, estimating whether or not the task has planned minutes.
run_batch_always_estimates(task_input, parsed, ratings) ==
    IF parsed.raised # "" THEN [ raised |-> "ValueError" ]
    ELSE Ran(task_input, parsed.planned_minutes, ratings,
             estimate_time_minutes(ratings[6], ratings[8], ratings[10]))

\* run_batch from the point where parse_task has returned or raised; ratings
\* is what prompt_grouped_batch_ratings(planned_mins) returns for the user's
\* input.
run_batch_parsed(task_input, parsed, ratings) ==
    IF parsed.raised # "" THEN [ raised |-> "ValueError" ]
    ELSE Ran(task_input, parsed.planned_minutes, ratings,
             IF parsed.planned_minutes = None
             THEN estimate_time_minutes(ratings[6], ratings[8], ratings[10])
             ELSE None)

run_batch(task_input, ratings) ==
    run_batch_parsed(task_input, parse_task(task_input), ratings)

\* main() with --ratings from the point where parse_ratings has returned.
\* sys.exit(1) raises SystemExit.
main_rated(task, planned_mins, ratings) ==
    IF ratings.isNone THEN [ raised |-> "SystemExit" ]
    ELSE Ran(task, planned_mins, ratings.list,
             IF planned_mins = None
             THEN estimate_time_minutes(ratings.list[6], ratings.list[8], ratings.list[10])
             ELSE None)

\* main() with --ratings from the point where parse_task has returned or
\* raised.
main_parsed(args, parsed) ==
    IF args.task = <<>> THEN [ raised |-> "SystemExit" ]
    ELSE IF parsed.raised # "" THEN [ raised |-> "ValueError" ]
    ELSE main_rated(args.task, parsed.planned_minutes,
                    parse_ratings(args.ratings, parsed.planned_minutes))

\* main() with --ratings: args.task and args.ratings are given, args.detail
\* and args.batch are not.
main(args) == main_parsed(args, parse_task(args.task))

\* run_demo() from the point where parse_ratings has returned.  The batch
\* simulation and the detail simulation call run_with_ratings with the same
\* arguments and get the same result.
run_demo_rated(task_input, planned_mins, ratings) ==
    IF ratings.isNone THEN [ raised |-> "SystemExit" ]
    ELSE Ran(task_input, planned_mins, ratings.list,
             IF planned_mins = None
             THEN estimate_time_minutes(ratings.list[6], ratings.list[8], ratings.list[10])
             ELSE None)

run_demo_parsed(task_input, parsed) ==
    IF parsed.raised # "" THEN [ raised |-> "ValueError" ]
    ELSE run_demo_rated(task_input, parsed.planned_minutes,
                        parse_ratings(CodePoints(Config.DEMO_RATINGS), parsed.planned_minutes))

\* run_demo(): the task and the ratings come from the configuration.
run_demo ==
    run_demo_parsed(CodePoints(Config.DEMO_TASK), parse_task(CodePoints(Config.DEMO_TASK)))

----------------------------------------------------------------------------
(* The calling program *)

\* A call of a core function: its name, its arguments, its return value.
Call(op, args, ret) == [op |-> op, args |-> args, ret |-> ret]

Last == calls[Len(calls)]

\* After import: config.py ends with load_profile(None), which reloads Config
\* from the environment of the process.
InitConfig(envs) ==
    /\ environ \in envs
    /\ Config = Reload
    /\ pc = "idle"
    /\ calls = <<>>
    /\ local = <<>>

----------------------------------------------------------------------------
(* Specification SpecScore: one call of a scorer or a selector, in any      *)
(* of the environments.                                                     *)

MaxMinutes == 160

MaxHundredths == 100

\* The floats passed as ratings.
FloatInputs == { Dec(0), Dec(30), Dec(50), Dec(60), Dec(100) }

\* The values of the rating scale of the current configuration.
Range4 == { Config.RATING_MAP[key] : key \in RatingKeys }

\* The cut points of the current configuration.
CutPoints ==
    { Config.THRESHOLD_IMPACT_3STAR, Config.THRESHOLD_IMPACT_2STAR,
      Config.THRESHOLD_IMPACT_1STAR, Config.THRESHOLD_URGENCY_HIGH,
      Config.THRESHOLD_EXECUTION_HIGH, Config.THRESHOLD_SURPRISE,
      Config.THRESHOLD_PLANNED }

\* The floats passed as scores: every multiple of 0.01 up to MaxHundredths,
\* and the nearest neighbours of every cut point.
ScoreInputs ==
    { Dec(h) : h \in 0..MaxHundredths } \cup { t + d : t \in CutPoints, d \in {0 - 1, 1} }

\* The program at `from` calls op(args), gets ret and goes on at `to`.
Step(from, to, op, args, ret) ==
    /\ pc = from
    /\ calls' = Append(calls, Call(op, args, ret))
    /\ pc' = to
    /\ UNCHANGED <<environ, Config, local>>

Return(op, args, ret) == Step("idle", "done", op, args, ret)

GetTimeScore ==
    /\ pc = "idle"
    /\ \E minutes \in 0..MaxMinutes :
        Return("get_time_score", <<minutes>>, get_time_score(minutes))

ComputeImpact ==
    /\ pc = "idle"
    /\ \E l \in FloatInputs, c \in FloatInputs, g \in FloatInputs :
        Return("compute_impact", <<l, c, g>>, compute_impact(l, c, g))

ComputeUrgency ==
    /\ pc = "idle"
    /\ \E p \in FloatInputs, d \in FloatInputs :
        Return("compute_urgency", <<p, d>>, compute_urgency(p, d))

ComputeExecution ==
    /\ pc = "idle"
    /\ \E c \in FloatInputs, t \in FloatInputs, r \in FloatInputs, f \in FloatInputs :
        Return("compute_execution", <<c, t, r, f>>, compute_execution(c, t, r, f))

GetImpactSymbol ==
    /\ pc = "idle"
    /\ \E score \in ScoreInputs :
        Return("get_impact_symbol", <<score>>, get_impact_symbol(score))

GetUrgencySymbol ==
    /\ pc = "idle"
    /\ \E score \in ScoreInputs :
        Return("get_urgency_symbol", <<score>>, get_urgency_symbol(score))

GetExecutionSymbol ==
    /\ pc = "idle"
    /\ \E score \in ScoreInputs :
        Return("get_execution_symbol", <<score>>, get_execution_symbol(score))

GetSurpriseSymbol ==
    /\ pc = "idle"
    /\ \E rating \in ScoreInputs :
        Return("get_surprise_symbol", <<rating>>, get_surprise_symbol(rating))

GetPlannedSymbol ==
    /\ pc = "idle"
    /\ \E rating \in ScoreInputs :
        Return("get_planned_symbol", <<rating>>, get_planned_symbol(rating))

\* The scores passed to get_analysis_text: both sides of 0.5 and of the two
\* cut points it reads, and the cut points themselves.
AnalysisInputs ==
    { Dec(0), Dec(49), Dec(50), Dec(51), Dec(100),
      Config.THRESHOLD_SURPRISE, Config.THRESHOLD_SURPRISE - 1,
      Config.THRESHOLD_URGENCY_HIGH, Config.THRESHOLD_URGENCY_HIGH - 1 }

GetAnalysisText ==
    /\ pc = "idle"
    /\ \E s_impact \in AnalysisInputs, s_execution \in AnalysisInputs,
          s_urgency \in AnalysisInputs, r_surprise \in AnalysisInputs :
        Return("get_analysis_text", <<s_impact, s_execution, s_urgency, r_surprise>>,
               get_analysis_text(s_impact, s_execution, s_urgency, r_surprise))

\* The ratings passed to estimate_time_minutes: the values of the rating scale
\* in use and of the default scale, and two values between them.
EstimateInputs == Range4 \cup { Dec(0), Dec(30), Dec(60), Dec(100), Dec(25), Dec(50) }

EstimateTimeMinutes ==
    /\ pc = "idle"
    /\ \E r_complex \in EstimateInputs, r_risk \in EstimateInputs,
          r_surprise \in EstimateInputs :
        Return("estimate_time_minutes", <<r_complex, r_risk, r_surprise>>,
               estimate_time_minutes(r_complex, r_risk, r_surprise))

\* The rating vectors passed to run_with_ratings: four floats a, b, c, d laid
\* out so that each weight group sees every combination of them.
RatingVectors ==
    { <<a, b, c, d, a, b, c, d, a, b, c>> :
        a \in Range4, b \in Range4, c \in Range4, d \in Range4 }

TaskInputs ==
    { <<"x">>,
      <<"{", "a", "}", " ", "x">>,
      Config.SYMBOLS.star \o <<"-", "-">> \o Config.SYMBOLS.planned_no
          \o <<"{", "p", "1", ":", "0", "5", "}", " ", "x">> }

RunWithRatings ==
    /\ pc = "idle"
    /\ \E task_input \in TaskInputs, ratings \in RatingVectors, estimated_mins \in {None, 145} :
        Return("run_with_ratings", <<task_input, ratings, estimated_mins>>,
               run_with_ratings(task_input, ratings, estimated_mins))

InitScore == InitConfig(Envs)

NextScore ==
    \/ GetTimeScore
    \/ ComputeImpact
    \/ ComputeUrgency
    \/ ComputeExecution
    \/ GetImpactSymbol
    \/ GetUrgencySymbol
    \/ GetExecutionSymbol
    \/ GetSurpriseSymbol
    \/ GetPlannedSymbol
    \/ GetAnalysisText
    \/ EstimateTimeMinutes
    \/ RunWithRatings

SpecScore == InitScore /\ [][NextScore]_vars

----------------------------------------------------------------------------
(* Specification SpecTask: a raw task string is parsed, its tags and text   *)
(* are assembled with symbols into an output string, and that output is     *)
(* parsed again.                                                            *)

MaxPieces == 3

\* What the raw task strings are put together from.
Pieces ==
    { Config.SYMBOLS.star, Config.SYMBOLS.surprise, Config.SYMBOLS.planned_yes,
      Config.SYMBOLS.planned_no, <<"-", "-">>, <<"-">>, <<"<FE0F>">>,
      <<" ">>, <<"x">>, <<"{">>, <<"}">>, <<"{", "a", "}">>,
      <<"{", "p", "1", ":", "0", "5", "}">> }

RECURSIVE Strings(_)
Strings(n) ==
    IF n = 0 THEN { <<>> }
    ELSE Strings(n - 1) \cup { s \o piece : s \in Strings(n - 1), piece \in Pieces }

ParseTask ==
    /\ pc = "idle"
    /\ \E task_str \in Strings(MaxPieces) :
        Step("idle", "parsed", "parse_task", <<task_str>>, parse_task(task_str))

FormatOutput ==
    /\ pc = "parsed"
    /\ \E stars \in 0..3, surprise_sym \in {<<>>, Config.SYMBOLS.surprise},
       planned_sym \in {Config.SYMBOLS.planned_yes, Config.SYMBOLS.planned_no} :
        Step("parsed", "formatted", "format_output",
             <<Stars(stars), surprise_sym, planned_sym, Last.ret.tags, Last.ret.text>>,
             format_output(Stars(stars), surprise_sym, planned_sym,
                           Last.ret.tags, Last.ret.text))

ParseOutput ==
    /\ pc = "formatted"
    /\ Step("formatted", "reparsed", "parse_task", <<Last.ret>>, parse_task(Last.ret))

InitTask == InitConfig({NoEnv})

NextTask ==
    \/ ParseTask
    \/ FormatOutput
    \/ ParseOutput

SpecTask == InitTask /\ [][NextTask]_vars

\* C1: parsing the assembled output gives back the tags and the text that the
\* first parse gave, whatever symbols the output was assembled with.
C1_RoundTrip ==
    pc = "reparsed" =>
        /\ calls[3].ret.tags = calls[1].ret.tags
        /\ calls[3].ret.text = calls[1].ret.text

\* A round trip whose input carried decorations, a tag and a text, assembled
\* with three stars and the surprise symbol.
C1_Witness ==
    /\ pc = "reparsed"
    /\ startswith(calls[1].args[1], Config.SYMBOLS.star)
    /\ calls[1].ret.tags # <<>>
    /\ calls[1].ret.text # <<>>
    /\ calls[2].args[1] = Stars(3)
    /\ calls[2].args[2] = Config.SYMBOLS.surprise
    /\ calls[3].ret.tags = calls[1].ret.tags
    /\ calls[3].ret.text = calls[1].ret.text

----------------------------------------------------------------------------
(* Specification SpecRatings: one call of parse_ratings, in any of the      *)
(* environments.                                                            *)

MaxTokens == 13

\* Tokens that are neither a key of the rating scale nor the underscore.
OddTokens == { <<"5">>, <<>>, <<"1", "0">> }

\* The token lists: n tokens that walk through the keys "0".."3" (from key
\* `first`, `stride` keys further at each index), then at most one index set
\* to the underscore and at most one index set to an odd token.
TokenList(n, first, stride, underscore, odd, oddToken) ==
    [ i \in 1..n |->
        IF i - 1 = odd THEN oddToken
        ELSE IF i - 1 = underscore THEN <<"_">>
        ELSE <<Digits[((first + stride * (i - 1)) % 4) + 1]>> ]

TokenLists ==
    { TokenList(n, walk[1], walk[2], underscore, odd, oddToken) :
        n \in {3} \cup (10..MaxTokens),
        walk \in { <<0, 0>>, <<3, 0>>, <<3, 3>> },
        underscore \in { None, 0, 6, 7, 11 },
        odd \in None..(MaxTokens - 1),
        oddToken \in OddTokens }

RECURSIVE join(_, _)
join(separator, parts) ==
    IF Len(parts) = 0 THEN <<>>
    ELSE IF Len(parts) = 1 THEN parts[1]
    ELSE parts[1] \o separator \o join(separator, Tail(parts))

RatingStrings ==
    { join(separator, parts) : separator \in { <<",">>, <<",", " ">> }, parts \in TokenLists }

PlannedInputs == { None, 0, 45, 91, 200 }

ParseRatings ==
    /\ pc = "idle"
    /\ \E ratings_str \in RatingStrings, planned_mins \in PlannedInputs :
        Return("parse_ratings", <<ratings_str, planned_mins>>,
               parse_ratings(ratings_str, planned_mins))

InitRatings == InitConfig(Envs)

NextRatings == ParseRatings

SpecRatings == InitRatings /\ [][NextRatings]_vars

----------------------------------------------------------------------------
(* parse_ratings: what a call accepts and what it returns                   *)

\* A call of parse_ratings has returned.
ParseRatingsDone == pc = "done" /\ Last.op = "parse_ratings"

\* The tokens of the rating string of the last call: spaces removed, split at
\* the commas.
Tokens == split(RemoveSpaces(Last.args[1]))

\* The token at index i (from 0) is a key of the rating scale.
IsKey(tokens, i) == InRatingMap(tokens[i + 1])

\* The token at index i (from 0) is the underscore.
IsUnderscore(tokens, i) == tokens[i + 1] = <<"_">>

\* The token at index i (from 0) is an underscore that is permitted: at the
\* time index, in a call that was given the planned minutes.
IsPermittedUnderscore(tokens, i) ==
    /\ IsUnderscore(tokens, i)
    /\ i = 6
    /\ Last.args[2] # None

AllTokensValid(tokens) ==
    \A i \in 0..(Len(tokens) - 1) : IsKey(tokens, i) \/ IsPermittedUnderscore(tokens, i)

\* C2: a rating string is accepted with exactly 11 or exactly 12 tokens and
\* gives None with any other number of tokens; twelve "0" tokens give a vector
\* of twelve lowest ratings, and a twelfth token "3" gives the highest rating
\* at index 11.
C2_ElevenOrTwelveTokens ==
    ParseRatingsDone =>
        LET tokens == Tokens
        IN  /\ Len(tokens) \notin {11, 12} => Last.ret.isNone
            /\ Len(tokens) \in {11, 12} /\ AllTokensValid(tokens) => ~Last.ret.isNone
            /\ Len(tokens) = 12 /\ (\A i \in 0..11 : tokens[i + 1] = <<"0">>) =>
                  Last.ret = Some([ i \in 1..12 |-> Config.RATING_MAP["0"] ])
            /\ Len(tokens) = 12 /\ AllTokensValid(tokens) /\ tokens[12] = <<"3">> =>
                  /\ ~Last.ret.isNone
                  /\ Len(Last.ret.list) = 12
                  /\ Last.ret.list[12] = Config.RATING_MAP["3"]

\* C3: eleven valid tokens give a vector of length 12 whose element at
\* index 11 is 0.0.
C3_ElevenPaddedToTwelve ==
    ParseRatingsDone =>
        LET tokens == Tokens
        IN  Len(tokens) = 11 /\ AllTokensValid(tokens) =>
                /\ ~Last.ret.isNone
                /\ Len(Last.ret.list) = 12
                /\ Last.ret.list[12] = Dec(0)

\* C4: parsing is all or nothing. One token that is neither a key of the
\* rating scale nor a permitted underscore makes the whole result None, and a
\* result that is not None has one element per token, each of them a value of
\* the rating scale.
C4_AllOrNothing ==
    ParseRatingsDone =>
        LET tokens == Tokens
        IN  /\ ~AllTokensValid(tokens) => Last.ret.isNone
            /\ ~Last.ret.isNone =>
                  /\ Len(Last.ret.list) = Len(tokens)
                  /\ \A i \in 1..Len(Last.ret.list) : Last.ret.list[i] \in Range4

\* Eleven tokens of which only the last is not valid: the result is None.
C4_Witness ==
    /\ ParseRatingsDone
    /\ LET tokens == Tokens
       IN  /\ Len(tokens) = 11
           /\ \A i \in 0..9 : IsKey(tokens, i)
           /\ ~IsKey(tokens, 10)
           /\ ~IsUnderscore(tokens, 10)
    /\ Last.ret.isNone

\* C5: the underscore is accepted only at index 6 and only in a call that was
\* given the planned minutes, and the element at index 6 is then
\* get_time_score(planned_mins); an underscore at any other index, or without
\* planned minutes, makes the result None.
C5_UnderscoreAtTimeIndex ==
    ParseRatingsDone =>
        LET tokens == Tokens
            underscores == { i \in 0..(Len(tokens) - 1) : IsUnderscore(tokens, i) }
        IN  /\ underscores # {} /\ ~Last.ret.isNone =>
                  /\ underscores = {6}
                  /\ Last.args[2] # None
                  /\ Last.ret.list[7] = get_time_score(Last.args[2])
            /\ underscores \ {6} # {} => Last.ret.isNone
            /\ underscores # {} /\ Last.args[2] = None => Last.ret.isNone
            /\ Len(tokens) = 11 /\ AllTokensValid(tokens) /\ underscores = {6} =>
                  ~Last.ret.isNone

\* Eleven tokens with the underscore at index 6 and 45 planned minutes, under
\* the default cut points: the element at index 6 is the rating of key "1".
C5_Witness ==
    /\ ParseRatingsDone
    /\ LET tokens == Tokens
       IN  /\ Len(tokens) = 11
           /\ IsUnderscore(tokens, 6)
    /\ Last.args[2] = 45
    /\ Config.TIME_THRESHOLDS = [low |-> 30, med |-> 90, high |-> 150]
    /\ ~Last.ret.isNone
    /\ Last.ret.list[7] = Config.RATING_MAP["1"]

----------------------------------------------------------------------------
(* The time-to-rating mapper, the scorers and the symbol selectors: what a  *)
(* call returns                                                             *)

\* A call of op has returned.
Done(op) == pc = "done" /\ Last.op = op

Zero == Dec(0)

One == Dec(100)

\* C6 as the tiers are named: minutes <= low gives the rating of "0",
\* low < minutes <= medium that of "1", medium < minutes <= high that of "2",
\* minutes > high that of "3"; with nothing configured the three cut points
\* are 30, 90 and 150.
C6_NamedTiers ==
    /\ environ = NoEnv => Config.TIME_THRESHOLDS = [low |-> 30, med |-> 90, high |-> 150]
    /\ Done("get_time_score") =>
          LET minutes == Last.args[1]
              t == Config.TIME_THRESHOLDS
          IN  /\ minutes <= t.low => Last.ret = Config.RATING_MAP["0"]
              /\ t.low < minutes /\ minutes <= t.med => Last.ret = Config.RATING_MAP["1"]
              /\ t.med < minutes /\ minutes <= t.high => Last.ret = Config.RATING_MAP["2"]
              /\ minutes > t.high => Last.ret = Config.RATING_MAP["3"]

\* C6: get_time_score returns the rating of the first of the cut points low,
\* medium, high, in that order, that minutes does not exceed, and the rating
\* of "3" when minutes exceeds all three. When low <= medium <= high, as with
\* the defaults 30, 90, 150, these are the tiers as they are named.
C6_FirstCutPointNotExceeded ==
    /\ environ = NoEnv => Config.TIME_THRESHOLDS = [low |-> 30, med |-> 90, high |-> 150]
    /\ Done("get_time_score") =>
          LET minutes == Last.args[1]
              t == Config.TIME_THRESHOLDS
              rating == Config.RATING_MAP
          IN  /\ minutes <= t.low => Last.ret = rating["0"]
              /\ minutes > t.low /\ minutes <= t.med => Last.ret = rating["1"]
              /\ minutes > t.low /\ minutes > t.med /\ minutes <= t.high =>
                    Last.ret = rating["2"]
              /\ minutes > t.low /\ minutes > t.med /\ minutes > t.high =>
                    Last.ret = rating["3"]
              /\ t.low <= t.med /\ t.med <= t.high =>
                    /\ t.med < minutes /\ minutes <= t.high => Last.ret = rating["2"]
                    /\ minutes > t.high => Last.ret = rating["3"]

\* The cut points are out of order (low above medium) and minutes lies between
\* them: the low cut point decides.
C6_Witness ==
    /\ Done("get_time_score")
    /\ Config.TIME_THRESHOLDS.med < Last.args[1]
    /\ Last.args[1] <= Config.TIME_THRESHOLDS.low
    /\ Last.args[1] <= Config.TIME_THRESHOLDS.high
    /\ Last.ret = Config.RATING_MAP["0"]
    /\ Last.ret # Config.RATING_MAP["2"]

\* The sum of the weights of a group.
WeightSum(group) ==
    IF group = "impact"
    THEN Config.WEIGHTS.impact.leverage + Config.WEIGHTS.impact.confidence
         + Config.WEIGHTS.impact.goals
    ELSE IF group = "urgency"
    THEN Config.WEIGHTS.urgency.priority + Config.WEIGHTS.urgency.deadline
    ELSE Config.WEIGHTS.execution.complex + Config.WEIGHTS.execution.time
         + Config.WEIGHTS.execution.risk + Config.WEIGHTS.execution.fun

\* The weights of a group, in the order of the scorer's parameters.
WeightsOf(group) ==
    IF group = "impact"
    THEN << Config.WEIGHTS.impact.leverage, Config.WEIGHTS.impact.confidence,
            Config.WEIGHTS.impact.goals >>
    ELSE IF group = "urgency"
    THEN << Config.WEIGHTS.urgency.priority, Config.WEIGHTS.urgency.deadline >>
    ELSE << Config.WEIGHTS.execution.complex, Config.WEIGHTS.execution.time,
            Config.WEIGHTS.execution.risk, Config.WEIGHTS.execution.fun >>

Groups == {"impact", "urgency", "execution"}

Scorer(group) == "compute_" \o group

RECURSIVE Dot(_, _)
Dot(ratings, weights) ==
    IF ratings = <<>> THEN 0
    ELSE Mul(Head(ratings), Head(weights)) + Dot(Tail(ratings), Tail(weights))

\* The parts of C7 that do not depend on what the weights sum to: the score
\* is the weighted sum of the ratings, all ratings 0 give 0.0, and one rating
\* 1 with the others 0 gives that rating's weight.
WeightedSum(group) ==
    Done(Scorer(group)) =>
        LET args == Last.args
            w == WeightsOf(group)
        IN  /\ Last.ret = Dot(args, w)
            /\ (\A i \in 1..Len(args) : args[i] = Zero) => Last.ret = Zero
            /\ \A i \in 1..Len(args) :
                  (\A j \in 1..Len(args) : args[j] = IF j = i THEN One ELSE Zero) =>
                      Last.ret = w[i]

AllOnes(group) == Done(Scorer(group)) /\ \A i \in 1..Len(Last.args) : Last.args[i] = One

RunWithScaleRatings ==
    /\ Done("run_with_ratings")
    /\ Last.ret.raised = ""
    /\ \A i \in 1..Len(Last.args[2]) :
          /\ Last.args[2][i] \in Range4
          /\ Zero <= Last.args[2][i]
          /\ Last.args[2][i] <= One

InUnitInterval(score) == Zero <= score /\ score <= One

\* C8 as stated: when the weights of a group sum to 1.0 and every rating is a
\* value of the rating scale in [0, 1], the group's score in the result of
\* run_with_ratings lies in [0, 1].
C8_ScoresInUnitInterval ==
    RunWithScaleRatings =>
        \A group \in Groups :
            WeightSum(group) = One => InUnitInterval(Last.ret.scores[group])

\* C8: when the weights of a group sum to 1.0, none of them is negative, and
\* every rating is a value of the rating scale in [0, 1], the group's score in
\* the result of run_with_ratings lies in [0, 1].
C8_NonNegativeWeights ==
    RunWithScaleRatings =>
        \A group \in Groups :
            /\ WeightSum(group) = One
            /\ \A i \in 1..Len(WeightsOf(group)) : WeightsOf(group)[i] >= 0
            => InUnitInterval(Last.ret.scores[group])

\* run_with_ratings under configured weights 0.7 and 0.3 for urgency, with
\* ratings that put the impact score at 1.0 and the urgency score strictly
\* inside the interval.
C8_Witness ==
    /\ RunWithScaleRatings
    /\ WeightsOf("urgency") = <<Dec(70), Dec(30)>>
    /\ \A group \in Groups :
          /\ WeightSum(group) = One
          /\ \A i \in 1..Len(WeightsOf(group)) : WeightsOf(group)[i] >= 0
    /\ Last.ret.scores.impact = One
    /\ Zero < Last.ret.scores.urgency
    /\ Last.ret.scores.urgency < One

\* C9: get_impact_symbol compares strictly: three stars above the three-star
\* cut point, else two stars above the two-star cut point, else one star above
\* the one-star cut point, else nothing; a score equal to a cut point does not
\* get that cut point's stars and falls to the comparisons below it. With the
\* default cut points, 0.75 gets two stars, 0.50 one star, 0.25 none.
C9_StrictCascade ==
    Done("get_impact_symbol") =>
        LET score == Last.args[1]
            t3 == Config.THRESHOLD_IMPACT_3STAR
            t2 == Config.THRESHOLD_IMPACT_2STAR
            t1 == Config.THRESHOLD_IMPACT_1STAR
        IN  /\ score > t3 => Last.ret = Stars(3)
            /\ score <= t3 /\ score > t2 => Last.ret = Stars(2)
            /\ score <= t3 /\ score <= t2 /\ score > t1 => Last.ret = Stars(1)
            /\ score <= t3 /\ score <= t2 /\ score <= t1 => Last.ret = Stars(0)
            /\ score = t3 => Last.ret # Stars(3)
            /\ score = t2 => Last.ret # Stars(2)
            /\ score = t1 => Last.ret # Stars(1)
            /\ <<t3, t2, t1>> = <<Dec(75), Dec(50), Dec(25)>> =>
                  /\ score = Dec(75) => Last.ret = Stars(2)
                  /\ score = Dec(50) => Last.ret = Stars(1)
                  /\ score = Dec(25) => Last.ret = Stars(0)

\* The score 0.75 under the default cut points: two stars.
C9_Witness ==
    /\ Done("get_impact_symbol")
    /\ Config.THRESHOLD_IMPACT_3STAR = Dec(75)
    /\ Config.THRESHOLD_IMPACT_2STAR = Dec(50)
    /\ Last.args[1] = Dec(75)
    /\ Last.ret = Stars(2)

\* C10: the urgency, execution, surprise and planned selectors compare
\* inclusively: a value equal to the cut point, or above it, gets the high
\* glyph (urgent, hard, surprise, planned), a value below it gets the low
\* glyph (calm, easy, planned-no) or, for surprise, the empty string.
C10_InclusiveSelectors ==
    LET Selects(op, threshold, high, low) ==
            Done(op) =>
                /\ Last.args[1] >= threshold => Last.ret = high
                /\ Last.args[1] < threshold => Last.ret = low
    IN  /\ Selects("get_urgency_symbol", Config.THRESHOLD_URGENCY_HIGH,
                   Config.SYMBOLS.urgency_high, Config.SYMBOLS.urgency_low)
        /\ Selects("get_execution_symbol", Config.THRESHOLD_EXECUTION_HIGH,
                   Config.SYMBOLS.execution_high, Config.SYMBOLS.execution_low)
        /\ Selects("get_surprise_symbol", Config.THRESHOLD_SURPRISE,
                   Config.SYMBOLS.surprise, <<>>)
        /\ Selects("get_planned_symbol", Config.THRESHOLD_PLANNED,
                   Config.SYMBOLS.planned_yes, Config.SYMBOLS.planned_no)

\* A planned rating equal to the cut point: the planned glyph.
C10_Witness ==
    /\ Done("get_planned_symbol")
    /\ Last.args[1] = Config.THRESHOLD_PLANNED
    /\ Last.ret = Config.SYMBOLS.planned_yes
    /\ Last.ret # Config.SYMBOLS.planned_no

----------------------------------------------------------------------------
(* format_output: what the assembled string is made of                      *)

\* format_output has been called: its call is the second of the log.
Formatted == Len(calls) >= 2 /\ calls[2].op = "format_output"

C12_TwoSingleDashes ==
    Formatted =>
        LET recurrent_sym == <<>>
        IN  calls[2].ret =
                calls[2].args[1] \o <<"-">> \o calls[2].args[2] \o recurrent_sym \o <<"-">>
                \o calls[2].args[3] \o calls[2].args[4] \o <<" ">> \o calls[2].args[5]

----------------------------------------------------------------------------
(* get_analysis_text: prefix, archetype and suffix                          *)

Half == Dec(50)

\* The archetype for a pair (impact > 0.5, execution > 0.5).
Archetype(high_impact, high_execution) ==
    IF high_impact
    THEN (IF high_execution THEN Config.ARCHETYPES.big_bet ELSE Config.ARCHETYPES.quick_win)
    ELSE (IF high_execution THEN Config.ARCHETYPES.slog ELSE Config.ARCHETYPES.filler)

ScopePrefix == "Scope is unclear (<1F381>). "

CriticalSuffix == " Critical priority."

\* The archetype sentence of an analysis text: the piece that is left when
\* the prefix and the suffix are taken away.
CoreOf(analysis) ==
    LET without_prefix == IF Head(analysis) = ScopePrefix /\ Len(analysis) > 1
                          THEN Tail(analysis) ELSE analysis
    IN  Head(without_prefix)

\* C13: the analysis text is prefix + core + suffix. The core is the one
\* archetype sentence chosen by (impact > 0.5, execution > 0.5); the prefix
\* "Scope is unclear" is there if and only if surprise is at or above the
\* surprise cut point, the suffix " Critical priority." if and only if urgency
\* is at or above the urgency cut point.
C13_PrefixCoreSuffix ==
    Done("get_analysis_text") =>
        LET s_impact == Last.args[1]
            s_execution == Last.args[2]
            s_urgency == Last.args[3]
            r_surprise == Last.args[4]
            unclear == r_surprise >= Config.THRESHOLD_SURPRISE
            critical == s_urgency >= Config.THRESHOLD_URGENCY_HIGH
            core == Archetype(s_impact > Half, s_execution > Half)
        IN  /\ Last.ret = (IF unclear THEN <<ScopePrefix>> ELSE <<>>) \o <<core>>
                          \o (IF critical THEN <<CriticalSuffix>> ELSE <<>>)
            /\ Len(Last.ret) = 1 + (IF unclear THEN 1 ELSE 0) + (IF critical THEN 1 ELSE 0)
            /\ unclear <=> Head(Last.ret) = ScopePrefix
            /\ critical <=> Last.ret[Len(Last.ret)] = CriticalSuffix
            /\ CoreOf(Last.ret) = core

\* Surprise at a configured cut point of 0.3, urgency just below its cut
\* point, high impact and low execution: the prefix, the quick-win sentence
\* and no suffix.
C13_Witness ==
    /\ Done("get_analysis_text")
    /\ Config.THRESHOLD_SURPRISE = Dec(30)
    /\ Last.args[4] = Dec(30)
    /\ Last.args[3] = Config.THRESHOLD_URGENCY_HIGH - 1
    /\ Last.args[1] > Half
    /\ Last.args[2] <= Half
    /\ Last.ret = <<ScopePrefix, Config.ARCHETYPES.quick_win>>

\* What C14 says of the analysis text: an execution score of exactly 0.5 is
\* low execution (quick win or filler), an impact score of exactly 0.5 is low
\* impact (filler or slog); in a direct call and in the result of
\* run_with_ratings.
HalfIsLowInAnalysis ==
    /\ Done("get_analysis_text") =>
          /\ Last.args[2] = Half =>
                CoreOf(Last.ret) \in {Config.ARCHETYPES.quick_win, Config.ARCHETYPES.filler}
          /\ Last.args[1] = Half =>
                CoreOf(Last.ret) \in {Config.ARCHETYPES.filler, Config.ARCHETYPES.slog}
    /\ Done("run_with_ratings") /\ Last.ret.raised = "" =>
          /\ Last.ret.scores.execution = Half =>
                CoreOf(Last.ret.analysis)
                    \in {Config.ARCHETYPES.quick_win, Config.ARCHETYPES.filler}
          /\ Last.ret.scores.impact = Half =>
                CoreOf(Last.ret.analysis) \in {Config.ARCHETYPES.filler, Config.ARCHETYPES.slog}

\* C14 as stated: for an execution score of exactly 0.5 the execution symbol
\* is the hard glyph while the analysis text has a low-execution archetype, and
\* for an impact score of exactly 0.5 the analysis text has a low-impact
\* archetype.
C14_HalfIsHardYetLow ==
    /\ HalfIsLowInAnalysis
    /\ Done("get_execution_symbol") /\ Last.args[1] = Half =>
          Last.ret = Config.SYMBOLS.execution_high
    /\ Done("run_with_ratings") /\ Last.ret.raised = "" /\ Last.ret.scores.execution = Half =>
          Last.ret.execution_sym = Config.SYMBOLS.execution_high

\* C14: for an execution score of exactly 0.5 the analysis text has a
\* low-execution archetype, and for an impact score of exactly 0.5 a low-impact
\* archetype, whatever the cut points; the execution symbol for a score of
\* exactly 0.5 is the hard glyph when the execution cut point is at most 0.5
\* (the default is 0.5) and the easy glyph when it is above 0.5.
C14_HalfIsHardUpToCutPoint ==
    LET hard_at_half == Config.THRESHOLD_EXECUTION_HIGH <= Half
        glyph == IF hard_at_half THEN Config.SYMBOLS.execution_high
                 ELSE Config.SYMBOLS.execution_low
    IN  /\ HalfIsLowInAnalysis
        /\ Done("get_execution_symbol") /\ Last.args[1] = Half => Last.ret = glyph
        /\ Done("run_with_ratings") /\ Last.ret.raised = "" /\ Last.ret.scores.execution = Half =>
              Last.ret.execution_sym = glyph

\* run_with_ratings under the default configuration with an execution score
\* of exactly 0.5: the hard glyph next to a low-execution archetype.
C14_Witness ==
    /\ Done("run_with_ratings")
    /\ environ = NoEnv
    /\ Last.ret.raised = ""
    /\ Last.ret.scores.execution = Half
    /\ Last.ret.execution_sym = Config.SYMBOLS.execution_high
    /\ CoreOf(Last.ret.analysis) \in {Config.ARCHETYPES.quick_win, Config.ARCHETYPES.filler}

----------------------------------------------------------------------------
(* Specification SpecParse: the task-string parser alone: one call of       *)
(* _strip_leading_symbols, one call of parse_task, or a call of parse_task  *)
(* followed by a call with decorations put in front of the same string.     *)

MaxParsePieces == 3

MaxDecoratedPieces == 2

MaxDecorations == 2

\* What the task strings are put together from: the decoration tokens, parts
\* of them, whitespace, text, braces, a tag, duration tags and tags that only
\* look like duration tags.
ParsePieces ==
    { Config.SYMBOLS.star, Config.SYMBOLS.surprise, Config.SYMBOLS.planned_yes,
      Config.SYMBOLS.planned_no, <<"-", "-">>, <<"-">>, <<"<FE0F>">>,
      <<" ">>, <<"\n">>, <<"x">>, <<"{">>, <<"}">>, <<"{", "a", "}">>,
      <<"{", "p", "1", ":", "0", "5", "}">>,
      <<"{", "p", "0", ":", "3", "0", "}">>,
      <<"{", "p", "1", ":", "5", "}">>,
      <<"{", "p", "1", "2", ":", "3", "4", "5", "}">> }

RECURSIVE ParseStrings(_)
ParseStrings(n) ==
    IF n = 0 THEN { <<>> }
    ELSE ParseStrings(n - 1)
         \cup { s \o piece : s \in ParseStrings(n - 1), piece \in ParsePieces }

\* A duration tag whose hours have one digit more than int() converts.
LongDurationTag ==
    <<"{", "p">> \o [ i \in 1..(int_max_str_digits + 1) |-> "1" ] \o <<":", "0", "0", "}">>

\* Task strings with such a tag: alone, after a decoration, before a text.
LongStrings ==
    { LongDurationTag, Config.SYMBOLS.star \o LongDurationTag,
      LongDurationTag \o <<" ", "x">> }

\* The decoration tokens and the whitespace that may stand around them.
DecorationPieces ==
    { Config.SYMBOLS.star, Config.SYMBOLS.surprise, Config.SYMBOLS.planned_yes,
      Config.SYMBOLS.planned_no, <<"-", "-">>, <<" ">> }

RECURSIVE Decorations(_)
Decorations(n) ==
    IF n = 0 THEN { <<>> }
    ELSE Decorations(n - 1)
         \cup { d \o piece : d \in Decorations(n - 1), piece \in DecorationPieces }

StripLeadingSymbols ==
    /\ pc = "idle"
    /\ \E task_str \in ParseStrings(MaxParsePieces) \cup LongStrings :
        Return("_strip_leading_symbols", <<task_str>>, _strip_leading_symbols(task_str))

ParseAlone ==
    /\ pc = "idle"
    /\ \E task_str \in ParseStrings(MaxParsePieces) \cup LongStrings :
        Return("parse_task", <<task_str>>, parse_task(task_str))

ParsePlain ==
    /\ pc = "idle"
    /\ \E s \in ParseStrings(MaxDecoratedPieces) \cup LongStrings :
        Step("idle", "plain", "parse_task", <<s>>, parse_task(s))

ParseDecorated ==
    /\ pc = "plain"
    /\ \E d \in Decorations(MaxDecorations) :
        Step("plain", "decorated", "parse_task",
             <<d \o Last.args[1]>>, parse_task(d \o Last.args[1]))

InitParse == InitConfig({NoEnv})

NextParse ==
    \/ StripLeadingSymbols
    \/ ParseAlone
    \/ ParsePlain
    \/ ParseDecorated

SpecParse == InitParse /\ [][NextParse]_vars

----------------------------------------------------------------------------
(* parse_task: planned minutes, tags and text                               *)

\* The first call of the log is a call of parse_task.
ParseCalled == Len(calls) >= 1 /\ calls[1].op = "parse_task"

\* s[i..j] is a duration tag: "{p", one or more digits, ":", two digits, "}".
IsDurationTag(s, i, j) ==
    /\ i + 6 <= j
    /\ j <= Len(s)
    /\ s[i] = "{"
    /\ s[i + 1] = "p"
    /\ \A k \in (i + 2)..(j - 4) : IsDigit(s[k])
    /\ s[j - 3] = ":"
    /\ IsDigit(s[j - 2])
    /\ IsDigit(s[j - 1])
    /\ s[j] = "}"

\* Where the duration tags of s are.
DurationTags(s) == { ij \in (1..Len(s)) \X (1..Len(s)) : IsDurationTag(s, ij[1], ij[2]) }

\* H * 60 + MM of the duration tag s[i..j].
MinutesOf(s, ij) ==
    int(SubSeq(s, ij[1] + 2, ij[2] - 4)) * 60 + int(SubSeq(s, ij[2] - 2, ij[2] - 1))

\* The planned minutes the call has to return for the string s: those of the
\* leftmost duration tag, None without one.
PlannedMinutesOf(s) ==
    LET found == DurationTags(s)
    IN  IF found = {} THEN None
        ELSE MinutesOf(s, CHOOSE ij \in found : \A other \in found : ij[1] <= other[1])

\* C15: parse_task returns H * 60 + MM of the first duration tag {pH:MM} (H
\* one or more digits, MM two digits) that stands anywhere in the string left
\* after the decorations are stripped, also when another tag stands before it;
\* it returns None without such a tag, and only the first of several counts.
C15_FirstDurationTag ==
    ParseCalled =>
        /\ calls[1].ret.raised = ""
        /\ calls[1].ret.planned_minutes =
              PlannedMinutesOf(_strip_leading_symbols(calls[1].args[1]))

\* s starts with whitespace (or none) and one group "{", one or more code
\* points other than "}", "}".
StartsWithGroup(s) ==
    \E i \in 1..Len(s), j \in 1..Len(s) :
        /\ \A k \in 1..(i - 1) : s[k] \in Whitespace
        /\ s[i] = "{"
        /\ j > i + 1
        /\ s[j] = "}"
        /\ \A k \in (i + 1)..(j - 1) : s[k] # "}"

\* s is one such group, or several one after the other.
RECURSIVE IsGroupRun(_)
IsGroupRun(s) ==
    \E j \in 1..Len(s) :
        /\ StartsWithGroup(SubSeq(s, 1, j))
        /\ s[j] = "}"
        /\ \A k \in 1..(j - 1) : s[k] # "}"
        /\ j = Len(s) \/ IsGroupRun(Drop(s, j))

\* C16: parse_task returns a triple for every string and never raises; the
\* empty string gives ('', '', None). When the stripped string does not start
\* with a brace-delimited group, tags is '' and text is the whole stripped
\* string; otherwise tags is the run of consecutive groups at its start and
\* text is the rest, both trimmed.
C16_Total ==
    ParseCalled =>
        LET ret == calls[1].ret
            stripped == _strip_leading_symbols(calls[1].args[1])
        IN  /\ ret.raised = ""
            /\ DOMAIN ret = {"raised", "tags", "text", "planned_minutes"}
            /\ calls[1].args[1] = <<>> =>
                  ret.tags = <<>> /\ ret.text = <<>> /\ ret.planned_minutes = None
            /\ ~StartsWithGroup(stripped) => ret.tags = <<>> /\ ret.text = stripped
            /\ StartsWithGroup(stripped) =>
                  /\ IsGroupRun(ret.tags)
                  /\ startswith(stripped, ret.tags)
                  /\ ~StartsWithGroup(Drop(stripped, Len(ret.tags)))
                  /\ ret.text = strip(Drop(stripped, Len(ret.tags)))

\* The decoration tokens: the star, surprise, planned and spontaneous glyphs
\* and the double dash.
DecorationTokens ==
    { Config.SYMBOLS.star, Config.SYMBOLS.surprise, Config.SYMBOLS.planned_yes,
      Config.SYMBOLS.planned_no, <<"-", "-">> }

\* C17: putting decoration tokens, with or without whitespace around them, in
\* front of a string does not change what parse_task makes of it; and what
\* _strip_leading_symbols returns starts neither with whitespace nor with a
\* decoration token.
C17_DecorationsIgnored ==
    /\ pc = "decorated" => calls[2].ret = calls[1].ret
    /\ Done("_strip_leading_symbols") =>
          /\ Last.ret # <<>> => Head(Last.ret) \notin Whitespace
          /\ \A token \in DecorationTokens : ~startswith(Last.ret, token)

\* Two decoration tokens in front of a string with a tag and a text: the
\* same tags, text and planned minutes as without them.
C17_Witness ==
    /\ pc = "decorated"
    /\ \E first \in DecorationTokens, second \in DecorationTokens :
          calls[2].args[1] = first \o second \o calls[1].args[1]
    /\ calls[1].ret.raised = ""
    /\ calls[1].ret.tags # <<>>
    /\ calls[1].ret.text # <<>>
    /\ calls[2].ret = calls[1].ret

----------------------------------------------------------------------------
(* estimate_time_minutes                                                    *)

\* The base duration the claim gives for a complexity.
BaseDuration(complexity) ==
    IF complexity = Zero THEN 15
    ELSE IF complexity = Dec(30) THEN 45
    ELSE IF complexity = Dec(60) THEN 90
    ELSE IF complexity = One THEN 180
    ELSE 45

\* minutes is the smallest multiple of 5 that is not below
\* base * (1 + 0.3 * risk) * (1 + 0.2 * surprise); the product is compared in
\* millionths of a minute.
SmallestMultipleOfFive(minutes, base, risk, surprise) ==
    LET product == base * (1000 + 3 * Hundredths(risk)) * (1000 + 2 * Hundredths(surprise))
        million == 1000 * 1000
    IN  /\ minutes % 5 = 0
        /\ minutes * million >= product
        /\ (minutes - 5) * million < product

EstimateRoundsUp ==
    Done("estimate_time_minutes") =>
        /\ SmallestMultipleOfFive(Last.ret, BaseDuration(Last.args[1]),
                                  Last.args[2], Last.args[3])
        /\ Last.args = <<Dec(60), One, One>> => Last.ret = 145

\* C18 as stated: the estimate is the smallest multiple of 5 not below the
\* base duration (15, 45, 90, 180 for complexity 0.0, 0.3, 0.6, 1.0, else 45)
\* times (1 + 0.3 * risk) times (1 + 0.2 * surprise), and it is always at
\* least the base duration; (0.6, 1.0, 1.0) gives 145.
C18_AtLeastBase ==
    /\ EstimateRoundsUp
    /\ Done("estimate_time_minutes") => Last.ret >= BaseDuration(Last.args[1])

\* C18: the estimate is the smallest multiple of 5 not below the base
\* duration (15, 45, 90, 180 for complexity 0.0, 0.3, 0.6, 1.0, else 45) times
\* (1 + 0.3 * risk) times (1 + 0.2 * surprise); it is at least the base
\* duration when neither risk nor surprise is negative; (0.6, 1.0, 1.0)
\* gives 145.
C18_AtLeastBaseIfNotNegative ==
    /\ EstimateRoundsUp
    /\ Done("estimate_time_minutes") /\ Last.args[2] >= Zero /\ Last.args[3] >= Zero =>
          Last.ret >= BaseDuration(Last.args[1])

\* A complexity outside the table with a risk of 0.5: the base is 45, the
\* product 51.75, the estimate 55.
C18_Witness ==
    /\ Done("estimate_time_minutes")
    /\ Last.args = <<Dec(25), Dec(50), Zero>>
    /\ Last.ret = 55

----------------------------------------------------------------------------
(* Specification SpecRun: one task is processed by the inline path of main, *)
(* by run_batch, by run_demo or by a direct call of run_with_ratings, and   *)
(* the output of a path is processed once more with the same ratings.       *)

MaxRunPieces == 2

\* The environments of the runs: the default one, demo settings, and rating
\* scales with negative values.
RunOverrides ==
    { <<>>,
      ( "DEMO_TASK" :> Text("{p1:05} Demo") @@ "DEMO_RATINGS" :> Text("3,3,3,3,3,3,_,3,3,3,3") ),
      ( "DEMO_RATINGS" :> Text("2,2") ),
      ( "RATING_0" :> Num(0 - 50) @@ "RATING_3" :> Num(150) ),
      ( "RATING_0" :> Num(0 - 400) @@ "DEMO_TASK" :> Text("{a} Demo") @@
        "DEMO_RATINGS" :> Text("3,3,3,3,3,3,3,0,3,0,3") ) }

RunEnvs == { [key \in EnvKeys |-> IF key \in DOMAIN o THEN o[key] ELSE Unset] : o \in RunOverrides }

\* What the tasks are put together from: decoration tokens, whitespace, text,
\* a tag, a duration tag and a tag that only looks like one.
RunPieces ==
    { Config.SYMBOLS.star, Config.SYMBOLS.planned_no, <<"-", "-">>,
      <<" ">>, <<"\n">>, <<"x">>, <<"{", "a", "}">>,
      <<"{", "p", "1", ":", "0", "5", "}">>,
      <<"{", "p", "1", ":", "5", "}">> }

RECURSIVE RunStrings(_)
RunStrings(n) ==
    IF n = 0 THEN { <<>> }
    ELSE RunStrings(n - 1)
         \cup { s \o piece : s \in RunStrings(n - 1), piece \in RunPieces }

RunTasks == RunStrings(MaxRunPieces) \cup LongStrings

\* The rating strings given with --ratings.
RunRatingStrings ==
    { CodePoints(text) : text \in { "2,2,2,1,1,1,1,1,2,1,2", "3,3,3,3,3,3,3,0,3,0,3",
                                    "3,3,3,3,3,3,_,3,3,3,3", "2,2" } }

\* The ratings prompt_grouped_batch_ratings returns: eleven values of the
\* rating scale.  Complexity, risk and surprise vary, the others are equal.
RunRatings ==
    { <<fill, fill, fill, fill, fill, r_complex, fill, r_risk, fill, r_surprise, fill>> :
        fill \in { Config.RATING_MAP["0"], Config.RATING_MAP["3"] },
        r_complex \in Range4,
        r_risk \in { Config.RATING_MAP["0"], Config.RATING_MAP["3"] },
        r_surprise \in { Config.RATING_MAP["0"], Config.RATING_MAP["3"] } }

\* The estimates passed to run_with_ratings directly.
RunEstimates == { None, 0, 65, 145 }

Main ==
    /\ pc = "idle"
    /\ \E task \in RunTasks, ratings \in RunRatingStrings :
        Step("idle", "ran", "main", <<task, ratings>>,
             main([task |-> task, ratings |-> ratings]))

RunBatch ==
    /\ pc = "idle"
    /\ \E task_input \in RunTasks, ratings \in RunRatings :
        Step("idle", "ran", "run_batch", <<task_input, ratings>>,
             run_batch(task_input, ratings))

RunDemo ==
    /\ pc = "idle"
    /\ Step("idle", "ran", "run_demo", <<>>, run_demo)

RunWithEstimate ==
    /\ pc = "idle"
    /\ \E task_input \in RunTasks, estimated_mins \in RunEstimates :
        LET ratings == [ i \in 1..11 |-> Config.RATING_MAP["2"] ]
        IN  Return("run_with_ratings", <<task_input, ratings, estimated_mins>>,
                   run_with_ratings(task_input, ratings, estimated_mins))

\* The output of the run is the task of a second run, with the same ratings.
RunBatchAgain ==
    /\ pc = "ran"
    /\ Last.ret.raised = ""
    /\ Step("ran", "again", "run_batch", <<Last.ret.result.output, Last.ret.ratings>>,
            run_batch(Last.ret.result.output, Last.ret.ratings))

InitRun == InitConfig(RunEnvs)

NextRun ==
    \/ Main
    \/ RunBatch
    \/ RunDemo
    \/ RunWithEstimate
    \/ RunBatchAgain

SpecRun == InitRun /\ [][NextRun]_vars

----------------------------------------------------------------------------
(* The time estimate and the duration tag                                   *)

\* The last call went through one of the paths and returned.
PathReturned ==
    /\ pc \in { "ran", "again" }
    /\ Last.ret.raised = ""

\* The tag {pH:MM} of an estimate: H = estimate div 60 in decimal, MM =
\* estimate mod 60 as two digits.
TagOfEstimate(estimate) ==
    <<"{", "p">> \o str(estimate \div 60)
        \o <<":", Digits[((estimate % 60) \div 10) + 1], Digits[((estimate % 60) % 10) + 1], "}">>

endswith(s, tail) ==
    Len(tail) <= Len(s) /\ SubSeq(s, Len(s) - Len(tail) + 1, Len(s)) = tail

\* output is symbols without any brace, then tags, one space and text.
TagsAfterSymbols(output, tags, text) ==
    LET tail == tags \o <<" ">> \o text
    IN  /\ endswith(output, tail)
        /\ \A i \in 1..(Len(output) - Len(tail)) : output[i] # "{"

\* What run_with_ratings has to put out for a task, given the estimate passed.
TagsAsClaimed(task, estimate, output) ==
    LET parsed == parse_task(task)
    IN  IF parsed.planned_minutes = None /\ estimate # None
        THEN TagsAfterSymbols(output, TagOfEstimate(estimate) \o parsed.tags, parsed.text)
        ELSE TagsAfterSymbols(output, parsed.tags, parsed.text)

\* C19: the inline path, run_batch and run_demo compute estimated minutes if
\* and only if parse_task returned planned minutes None; run_with_ratings puts
\* the tag {pH:MM} of the estimate in front of the task's tags exactly when
\* the planned minutes are None and an estimate was passed, and leaves the
\* tags as parse_task returned them otherwise.
C19_EstimateOnlyWithoutPlannedTime ==
    /\ PathReturned =>
        LET task == IF Last.op = "run_demo" THEN CodePoints(Config.DEMO_TASK)
                    ELSE Last.args[1]
        IN  /\ Last.ret.planned_mins = parse_task(task).planned_minutes
            /\ Last.ret.estimated_mins # None <=> Last.ret.planned_mins = None
            /\ Last.ret.planned_mins = None =>
                  Last.ret.estimated_mins =
                      estimate_time_minutes(Last.ret.ratings[6], Last.ret.ratings[8],
                                            Last.ret.ratings[10])
            /\ TagsAsClaimed(task, Last.ret.estimated_mins, Last.ret.result.output)
    /\ Done("run_with_ratings") /\ Last.ret.raised = "" =>
          TagsAsClaimed(Last.args[1], Last.args[3], Last.ret.output)

\* The inline path for the task "{a}x" with complexity 1.0, risk 0.0 and
\* surprise 0.0: the estimate is 180 and the output ends with "{p3:00}{a} x".
C19_Witness ==
    /\ pc = "ran"
    /\ Last.op = "main"
    /\ Last.args[1] = <<"{", "a", "}", "x">>
    /\ Last.ret.raised = ""
    /\ Last.ret.estimated_mins = 180
    /\ endswith(Last.ret.result.output,
                <<"{", "p", "3", ":", "0", "0", "}", "{", "a", "}", " ", "x">>)

\* A task that has a duration tag, processed by run_batch: no estimate, and
\* the tags in the output are the task's.
C19_Tagged ==
    /\ pc = "ran"
    /\ Last.op = "run_batch"
    /\ Last.args[1] = <<"{", "p", "1", ":", "0", "5", "}", "{", "a", "}">>
    /\ Last.ret.raised = ""
    /\ Last.ret.estimated_mins = None

\* The first run estimated, the second run took its output.
Reannotated ==
    /\ pc = "again"
    /\ calls[1].ret.planned_mins = None

\* out is processed as the claim says: its planned minutes are the estimate,
\* the second output is out, and out has exactly one duration tag.
NoDuplicateTag ==
    LET out == calls[1].ret.result.output
    IN  /\ parse_task(out).raised = ""
        /\ parse_task(out).planned_minutes = calls[1].ret.estimated_mins
        /\ calls[2].ret.raised = ""
        /\ calls[2].ret.result.output = out
        /\ Cardinality(DurationTags(out)) = 1

\* C20 as stated: when a task without planned time was processed with its
\* estimate, parse_task of the output returns the estimate as planned minutes,
\* and processing the output again with the same ratings gives the same
\* output, with exactly one duration tag.
C20_ReannotationKeepsOneTag ==
    Reannotated => NoDuplicateTag

\* The same holds for a task that does not end with whitespace and an
\* estimate that is not negative.
ReannotationOfTrimmedTask ==
    LET task == IF calls[1].op = "run_demo" THEN CodePoints(Config.DEMO_TASK)
                ELSE calls[1].args[1]
    IN  Reannotated /\ rstrip(task) = task /\ calls[1].ret.estimated_mins >= 0
            => NoDuplicateTag

\* A tagged, decorated task without planned time run twice: the second
\* output is the first, with the one duration tag {p3:00}.
C20_Witness ==
    /\ Reannotated
    /\ calls[1].args[1] = Config.SYMBOLS.star \o <<"{", "a", "}">>
    /\ calls[1].ret.estimated_mins = 180
    /\ calls[2].ret.planned_mins = 180
    /\ calls[2].ret.result.output = calls[1].ret.result.output

----------------------------------------------------------------------------
(* Specification SpecConfig: the configuration is validated, reloaded and   *)
(* replaced by profiles between calls of the core functions.                *)

MaxConfigCalls == 3

\* An environment value that float() accepts, in units of 1 / Scale.
Float(v) == [k |-> "num", v |-> v, s |-> ""]

\* The files load_profile finds: each sets some variables, and load_dotenv
\* (override=True) leaves the others as they are.
Profiles ==
    { \* impact weights sum to 1.004, within the tolerance
      ( "WEIGHT_IMPACT_LEVERAGE" :> Float(5040) ),
      \* impact weights sum to 1.1
      ( "WEIGHT_IMPACT_LEVERAGE" :> Num(60) ),
      \* urgency weights sum to 0.9, impact weights to 1.0
      ( "WEIGHT_IMPACT_LEVERAGE" :> Num(50) @@ "WEIGHT_URGENCY_PRIORITY" :> Num(40) ),
      \* execution weights sum to 1.2
      ( "WEIGHT_EXECUTION_FUN" :> Num(30) ),
      \* other weights, cut points, time thresholds and rating scale
      ( "RATING_1" :> Num(25) @@ "RATING_2" :> Num(50) @@
        "WEIGHT_IMPACT_LEVERAGE" :> Num(40) @@ "WEIGHT_IMPACT_CONFIDENCE" :> Num(30) @@
        "WEIGHT_IMPACT_GOALS" :> Num(30) @@
        "WEIGHT_URGENCY_PRIORITY" :> Num(70) @@ "WEIGHT_URGENCY_DEADLINE" :> Num(30) @@
        "WEIGHT_EXECUTION_COMPLEX" :> Num(25) @@ "WEIGHT_EXECUTION_TIME" :> Num(25) @@
        "WEIGHT_EXECUTION_RISK" :> Num(25) @@ "WEIGHT_EXECUTION_FUN" :> Num(25) @@
        "TIME_THRESHOLD_LOW" :> IntLit(15) @@ "TIME_THRESHOLD_MED" :> IntLit(40) @@
        "TIME_THRESHOLD_HIGH" :> IntLit(60) @@
        "THRESHOLD_IMPACT_3STAR" :> Num(80) @@ "THRESHOLD_IMPACT_2STAR" :> Num(60) @@
        "THRESHOLD_IMPACT_1STAR" :> Num(20) @@
        "THRESHOLD_URGENCY_HIGH" :> Num(60) @@ "THRESHOLD_EXECUTION_HIGH" :> Num(60) @@
        "THRESHOLD_SURPRISE" :> Num(60) @@ "THRESHOLD_PLANNED" :> Num(60) @@
        "ARCHETYPE_BIG_BET" :> Text("Bet.") ),
      \* a rating scale that is not increasing, a threshold float() rejects
      ( "RATING_0" :> Num(100) @@ "RATING_3" :> Num(0) @@ "RATING_1" :> Junk @@
        "THRESHOLD_URGENCY_HIGH" :> Junk ) }

\* The environments the process is started in.
ConfigEnvs ==
    { NoEnv,
      [key \in EnvKeys |->
          IF key = "WEIGHT_IMPACT_LEVERAGE" THEN Num(60)
          ELSE IF key = "WEIGHT_URGENCY_PRIORITY" THEN Num(40)
          ELSE IF key = "WEIGHT_EXECUTION_FUN" THEN Num(30)
          ELSE Unset] }

\* A call that also rewrites the display map.
LogRewritingDisplayMap(op, args, ret) ==
    /\ Len(calls) < MaxConfigCalls
    /\ calls' = Append(calls, Call(op, args, ret))
    /\ Config' = [Config EXCEPT !.DISPLAY_MAP = [key \in RatingKeys |-> <<key>>]]
    /\ UNCHANGED <<environ, pc, local>>

\* The next step of the calling program is logged; the core and
\* Config.validate assign nothing.
Log(op, args, ret) ==
    /\ Len(calls) < MaxConfigCalls
    /\ calls' = Append(calls, Call(op, args, ret))
    /\ UNCHANGED <<environ, Config, pc, local>>

ConfigValidate == Log("Config.validate", <<>>, validate)

\* Config.reload(): every attribute is assigned from the environment.
ConfigReload ==
    /\ Len(calls) < MaxConfigCalls
    /\ Config' = Reload
    /\ calls' = Append(calls, Call("Config.reload", <<>>, None))
    /\ UNCHANGED <<environ, pc, local>>

\* load_profile without its Config.reload().
LoadProfileWithoutReload ==
    /\ Len(calls) < MaxConfigCalls
    /\ \E file \in Profiles :
        /\ environ' = [key \in EnvKeys |->
                          IF key \in DOMAIN file THEN file[key] ELSE environ[key]]
        /\ calls' = Append(calls, Call("load_profile", <<file>>, None))
    /\ UNCHANGED <<Config, pc, local>>

\* load_profile(profile) when a file is found: load_dotenv puts its
\* variables into os.environ, then Config.reload().
LoadProfile ==
    /\ Len(calls) < MaxConfigCalls
    /\ \E file \in Profiles :
        /\ environ' = [key \in EnvKeys |->
                          IF key \in DOMAIN file THEN file[key] ELSE environ[key]]
        /\ calls' = Append(calls, Call("load_profile", <<file>>, None))
    /\ Config' = Reload'
    /\ UNCHANGED <<pc, local>>

\* load_profile(profile) when no file is found or dotenv is not installed:
\* Config.reload() only.
LoadProfileNoFile ==
    /\ Len(calls) < MaxConfigCalls
    /\ Config' = Reload
    /\ calls' = Append(calls, Call("load_profile", <<>>, None))
    /\ UNCHANGED <<environ, pc, local>>

\* The ratings and the scores of the calls: 1.0, 0.3, 0.6, 0.0, 0.55.
CallScorer ==
    \/ Log("compute_impact", <<Dec(100), Dec(30), Dec(60)>>,
           compute_impact(Dec(100), Dec(30), Dec(60)))
    \/ Log("compute_urgency", <<Dec(100), Dec(30)>>, compute_urgency(Dec(100), Dec(30)))
    \/ Log("compute_execution", <<Dec(100), Dec(30), Dec(60), Dec(0)>>,
           compute_execution(Dec(100), Dec(30), Dec(60), Dec(0)))

CallSelector ==
    \/ Log("get_time_score", <<45>>, get_time_score(45))
    \/ Log("get_impact_symbol", <<Dec(55)>>, get_impact_symbol(Dec(55)))
    \/ Log("get_urgency_symbol", <<Dec(55)>>, get_urgency_symbol(Dec(55)))
    \/ Log("get_execution_symbol", <<Dec(55)>>, get_execution_symbol(Dec(55)))
    \/ Log("get_surprise_symbol", <<Dec(55)>>, get_surprise_symbol(Dec(55)))
    \/ Log("get_planned_symbol", <<Dec(55)>>, get_planned_symbol(Dec(55)))

CallAnalysis ==
    Log("get_analysis_text", <<Dec(55), Dec(55), Dec(55), Dec(55)>>,
        get_analysis_text(Dec(55), Dec(55), Dec(55), Dec(55)))

CallParser ==
    \/ Log("parse_task", << <<"{", "p", "1", ":", "0", "5", "}", " ", "x">> >>,
           parse_task(<<"{", "p", "1", ":", "0", "5", "}", " ", "x">>))
    \/ Log("parse_ratings", <<CodePoints("3,3,3,3,3,3,_,3,3,3,3"), 45>>,
           parse_ratings(CodePoints("3,3,3,3,3,3,_,3,3,3,3"), 45))

CallEstimate ==
    Log("estimate_time_minutes", <<Dec(60), Dec(100), Dec(100)>>,
        estimate_time_minutes(Dec(60), Dec(100), Dec(100)))

CallFormatter ==
    Log("format_output", <<Config.SYMBOLS.star, <<>>, Config.SYMBOLS.planned_no, <<>>, <<"x">>>>,
        format_output(Config.SYMBOLS.star, <<>>, Config.SYMBOLS.planned_no, <<>>, <<"x">>))

CallRun ==
    Log("run_with_ratings",
        << <<"x">>, <<Dec(100), Dec(30), Dec(60), Dec(100), Dec(30), Dec(100), Dec(30),
                      Dec(60), Dec(0), Dec(55), Dec(55)>>, None >>,
        run_with_ratings(<<"x">>, <<Dec(100), Dec(30), Dec(60), Dec(100), Dec(30), Dec(100),
                                    Dec(30), Dec(60), Dec(0), Dec(55), Dec(55)>>, None))

\* run_with_ratings with a list of twelve ratings.
CallRunTwelve ==
    \E last \in {Dec(0), Dec(30), Dec(100)} :
        Log("run_with_ratings",
            << <<"x">>, <<Dec(100), Dec(60), Dec(30), Dec(0), Dec(60), Dec(30), Dec(0),
                          Dec(60), Dec(30), Dec(0), Dec(100), last>>, None >>,
            run_with_ratings(<<"x">>, <<Dec(100), Dec(60), Dec(30), Dec(0), Dec(60), Dec(30),
                                        Dec(0), Dec(60), Dec(30), Dec(0), Dec(100), last>>,
                             None))

InitConfigCalls == InitConfig(ConfigEnvs)

NextConfig ==
    \/ ConfigValidate
    \/ ConfigReload
    \/ LoadProfile
    \/ LoadProfileNoFile
    \/ CallScorer
    \/ CallSelector
    \/ CallAnalysis
    \/ CallParser
    \/ CallEstimate
    \/ CallFormatter
    \/ CallRun
    \/ CallRunTwelve

SpecConfig == InitConfigCalls /\ [][NextConfig]_vars

----------------------------------------------------------------------------
(* Config.validate                                                          *)

WeightGroups == <<"impact", "urgency", "execution">>

\* The groups whose weights are further than 0.01 from 1.0.
OffGroups == { i \in 1..3 : abs(WeightSum(WeightGroups[i]) - Scale) > Dec(1) }

GroupMessage ==
    << "Impact weights must sum to 1.0, got ",
       "Urgency weights must sum to 1.0, got ",
       "Execution weights must sum to 1.0, got " >>

\* The message of group i: its text, then the sum with two decimals.
MessageOf(i, message) ==
    /\ Len(message) > 1
    /\ message[1] = GroupMessage[i]
    /\ SubSeq(message, 2, Len(message)) = Format2f(WeightSum(WeightGroups[i]))

ValidationFailed(i) ==
    /\ i \in 1..Len(calls)
    /\ calls[i].op = "Config.validate"
    /\ calls[i].ret # <<>>

\* C21 (state part): Config.validate returns one message for each weight
\* group whose sum is further than 0.01 from 1.0, in the order impact,
\* urgency, execution, and the empty list when there is none, as for the
\* default configuration; a scorer called after a failing validation returns
\* the sum of its ratings weighted with the configured weights.
C21_MessagesPerGroup ==
    /\ (Len(calls) > 0 /\ Last.op = "Config.validate") =>
          /\ Len(Last.ret) = Cardinality(OffGroups)
          /\ \A i \in OffGroups :
                MessageOf(i, Last.ret[Cardinality({ j \in OffGroups : j <= i })])
          /\ (OffGroups = {}) => Last.ret = <<>>
          /\ (environ = NoEnv /\ Config = Reload) => Last.ret = <<>>
    /\ (Len(calls) > 1 /\ ValidationFailed(Len(calls) - 1)) =>
          /\ (Last.op = "compute_impact") =>
                Last.ret = Mul(Last.args[1], Config.WEIGHTS.impact.leverage)
                           + Mul(Last.args[2], Config.WEIGHTS.impact.confidence)
                           + Mul(Last.args[3], Config.WEIGHTS.impact.goals)
          /\ (Last.op = "compute_urgency") =>
                Last.ret = Mul(Last.args[1], Config.WEIGHTS.urgency.priority)
                           + Mul(Last.args[2], Config.WEIGHTS.urgency.deadline)
          /\ (Last.op = "compute_execution") =>
                Last.ret = Mul(Last.args[1], Config.WEIGHTS.execution.complex)
                           + Mul(Last.args[2], Config.WEIGHTS.execution.time)
                           + Mul(Last.args[3], Config.WEIGHTS.execution.risk)
                           + Mul(Last.args[4], Config.WEIGHTS.execution.fun)

\* C21: the state part in every state, and a step of Config.validate changes
\* no configuration value and no environment variable.
C21_ValidateReportsAndKeeps ==
    /\ []C21_MessagesPerGroup
    /\ [][(Len(calls') > Len(calls) /\ calls'[Len(calls')].op = "Config.validate")
            => (Config' = Config /\ environ' = environ)]_vars

\* Only the urgency weights are off; validation said so and compute_urgency
\* was called after that.
C21_Witness ==
    /\ Len(calls) = 3
    /\ calls[1].op = "load_profile"
    /\ ValidationFailed(2)
    /\ OffGroups = {2}
    /\ Len(calls[2].ret) = 1
    /\ MessageOf(2, calls[2].ret[1])
    /\ Last.op = "compute_urgency"
    /\ Last.ret = Dec(55)

----------------------------------------------------------------------------
(* The core and the configuration                                           *)

CoreOps ==
    { "parse_task", "parse_ratings", "get_time_score", "estimate_time_minutes",
      "compute_impact", "compute_urgency", "compute_execution",
      "get_impact_symbol", "get_urgency_symbol", "get_execution_symbol",
      "get_surprise_symbol", "get_planned_symbol",
      "format_output", "get_analysis_text", "run_with_ratings" }

\* The step is a call of a core operation.
CoreCall == Len(calls') > Len(calls) /\ calls'[Len(calls')].op \in CoreOps

IsCore(i) == i \in 1..Len(calls) /\ calls[i].op \in CoreOps

Current(key, default) ==
    IF environ[key].k = "num" THEN environ[key].v ELSE default

CurrentInt(key, default) ==
    IF environ[key].k = "num" /\ environ[key].v % Scale = 0
    THEN environ[key].v \div Scale ELSE default

CurrentRating(key) ==
    CASE key = "0" -> Current("RATING_0", Dec(0))
      [] key = "1" -> Current("RATING_1", Dec(30))
      [] key = "2" -> Current("RATING_2", Dec(60))
      [] key = "3" -> Current("RATING_3", Dec(100))

CurrentTimeScore(minutes) ==
    IF minutes <= CurrentInt("TIME_THRESHOLD_LOW", 30) THEN CurrentRating("0")
    ELSE IF minutes <= CurrentInt("TIME_THRESHOLD_MED", 90) THEN CurrentRating("1")
    ELSE IF minutes <= CurrentInt("TIME_THRESHOLD_HIGH", 150) THEN CurrentRating("2")
    ELSE CurrentRating("3")

\* The result of the call with the values the last reload or profile left.
UsesCurrent(call) ==
    LET a == call.args
    IN  /\ call.op = "compute_impact" =>
              call.ret = Mul(a[1], Current("WEIGHT_IMPACT_LEVERAGE", Dec(50)))
                         + Mul(a[2], Current("WEIGHT_IMPACT_CONFIDENCE", Dec(25)))
                         + Mul(a[3], Current("WEIGHT_IMPACT_GOALS", Dec(25)))
        /\ call.op = "compute_urgency" =>
              call.ret = Mul(a[1], Current("WEIGHT_URGENCY_PRIORITY", Dec(50)))
                         + Mul(a[2], Current("WEIGHT_URGENCY_DEADLINE", Dec(50)))
        /\ call.op = "compute_execution" =>
              call.ret = Mul(a[1], Current("WEIGHT_EXECUTION_COMPLEX", Dec(40)))
                         + Mul(a[2], Current("WEIGHT_EXECUTION_TIME", Dec(30)))
                         + Mul(a[3], Current("WEIGHT_EXECUTION_RISK", Dec(20)))
                         + Mul(a[4], Current("WEIGHT_EXECUTION_FUN", Dec(10)))
        /\ call.op = "get_time_score" => call.ret = CurrentTimeScore(a[1])
        /\ call.op = "get_impact_symbol" =>
              call.ret = IF a[1] > Current("THRESHOLD_IMPACT_3STAR", Dec(75)) THEN Stars(3)
                         ELSE IF a[1] > Current("THRESHOLD_IMPACT_2STAR", Dec(50)) THEN Stars(2)
                         ELSE IF a[1] > Current("THRESHOLD_IMPACT_1STAR", Dec(25)) THEN Stars(1)
                         ELSE <<>>
        /\ call.op = "get_urgency_symbol" =>
              call.ret = IF a[1] >= Current("THRESHOLD_URGENCY_HIGH", Dec(50))
                         THEN SYMBOLS.urgency_high ELSE SYMBOLS.urgency_low
        /\ call.op = "get_execution_symbol" =>
              call.ret = IF a[1] >= Current("THRESHOLD_EXECUTION_HIGH", Dec(50))
                         THEN SYMBOLS.execution_high ELSE SYMBOLS.execution_low
        /\ call.op = "get_surprise_symbol" =>
              call.ret = IF a[1] >= Current("THRESHOLD_SURPRISE", Dec(50))
                         THEN SYMBOLS.surprise ELSE <<>>
        /\ call.op = "get_planned_symbol" =>
              call.ret = IF a[1] >= Current("THRESHOLD_PLANNED", Dec(50))
                         THEN SYMBOLS.planned_yes ELSE SYMBOLS.planned_no
        /\ call.op = "parse_ratings" =>
              /\ ~call.ret.isNone
              /\ \A i \in 1..Len(call.ret.list) :
                    call.ret.list[i] = IF i = 7 THEN CurrentTimeScore(a[2])
                                       ELSE CurrentRating("3")
        /\ call.op = "get_analysis_text" =>
              /\ (call.ret[1] = "Scope is unclear (<1F381>). ")
                    <=> (a[4] >= Current("THRESHOLD_SURPRISE", Dec(50)))
              /\ (call.ret[Len(call.ret)] = " Critical priority.")
                    <=> (a[3] >= Current("THRESHOLD_URGENCY_HIGH", Dec(50)))
              /\ \E i \in 1..Len(call.ret) :
                    call.ret[i] = IF environ["ARCHETYPE_BIG_BET"].k = "text"
                                  THEN environ["ARCHETYPE_BIG_BET"].s
                                  ELSE "High value, but demanding. Schedule deep work for this."

\* C23: a scorer, symbol selector, get_time_score, parse_ratings or
\* get_analysis_text called after Config.reload() or load_profile() replaced
\* weights, thresholds, time thresholds or the rating scale returns what the
\* values the environment now holds give, and so nothing of the values that
\* were replaced.
C23_NoStaleConfiguration ==
    (Len(calls) > 0) => UsesCurrent(Last)

\* The same scorer call before and after a profile replaced the weights: the
\* second result is the one of the new weights, and differs from the first.
C23_Witness ==
    /\ Len(calls) = 3
    /\ calls[1].op = "compute_impact"
    /\ calls[2].op = "load_profile"
    /\ Last.op = "compute_impact"
    /\ Last.args = calls[1].args
    /\ Last.ret # calls[1].ret
    /\ Last.ret = Dec(67)
    /\ Config.WEIGHTS.impact.leverage = Dec(40)

----------------------------------------------------------------------------
(* The rating scale after Config.reload()                                   *)

Reloaded == Len(calls) > 0 /\ Last.op \in {"Config.reload", "load_profile"}

FourKeys ==
    /\ DOMAIN Config.RATING_MAP = {"0", "1", "2", "3"}
    /\ DOMAIN Config.DISPLAY_MAP = {"0", "1", "2", "3"}

\* str(x) of the floats 0.0, 0.25, 0.3, 0.5, 0.6 and 1.0, as Python prints them.
Printed(x) ==
    CASE x = Dec(0)   -> <<"0", ".", "0">>
      [] x = Dec(25)  -> <<"0", ".", "2", "5">>
      [] x = Dec(30)  -> <<"0", ".", "3">>
      [] x = Dec(50)  -> <<"0", ".", "5">>
      [] x = Dec(60)  -> <<"0", ".", "6">>
      [] x = Dec(100) -> <<"1", ".", "0">>

DisplayIsStr ==
    \A key \in DOMAIN Config.RATING_MAP :
        Config.DISPLAY_MAP[key] = Printed(Config.RATING_MAP[key])

Increasing ==
    /\ Config.RATING_MAP["0"] < Config.RATING_MAP["1"]
    /\ Config.RATING_MAP["1"] < Config.RATING_MAP["2"]
    /\ Config.RATING_MAP["2"] < Config.RATING_MAP["3"]

\* What Config.reload() reads for the four keys: the variable's value, or the
\* default when it is unset or not a float.
ReadsIncreasing ==
    /\ CurrentRating("0") < CurrentRating("1")
    /\ CurrentRating("1") < CurrentRating("2")
    /\ CurrentRating("2") < CurrentRating("3")

\* C24 as stated: after every Config.reload(), whatever the environment
\* values, RATING_MAP has exactly the keys '0'..'3' with values increasing in
\* key order, and DISPLAY_MAP has the same keys with
\* DISPLAY_MAP[k] == str(RATING_MAP[k]).
C24_ScaleIncreasing ==
    Reloaded => (FourKeys /\ Increasing /\ DisplayIsStr)

\* C24 (amended): after every Config.reload(), whatever the environment
\* values, RATING_MAP has exactly the keys '0'..'3' and DISPLAY_MAP has the
\* same keys with DISPLAY_MAP[k] == str(RATING_MAP[k]); the values increase
\* in key order when the values read from the environment do, as the
\* defaults do.
C24_ScaleAsRead ==
    Reloaded =>
        /\ FourKeys
        /\ DisplayIsStr
        /\ ReadsIncreasing => Increasing
        /\ (\A key \in {"RATING_0", "RATING_1", "RATING_2", "RATING_3"} :
                environ[key] = Unset) => Increasing

\* A reload after a profile set RATING_0 = 1.0 and RATING_3 = 0: four keys,
\* the display map follows, the values do not increase.
C24_Witness ==
    /\ Reloaded
    /\ Len(calls) > 1
    /\ Last.op = "Config.reload"
    /\ Config.RATING_MAP["0"] = Dec(100)
    /\ Config.RATING_MAP["3"] = Dec(0)
    /\ Config.DISPLAY_MAP["0"] = <<"1", ".", "0">>
    /\ Config.DISPLAY_MAP["3"] = <<"0", ".", "0">>
    /\ FourKeys
    /\ ~Increasing

----------------------------------------------------------------------------
(* The twelfth rating                                                       *)

RanTwelve ==
    /\ Len(calls) > 0
    /\ Last.op = "run_with_ratings"
    /\ Len(Last.args[2]) = 12
    /\ Last.ret.raised = ""

\* C25: the recurrent rating is carried through: run_with_ratings on a vector
\* of twelve ratings reports the twelfth as ratings['Rec'] and reports
\* symbols['recurrent'], which is empty when the rating does not reach above
\* every threshold.
C25_RecurrentCarried ==
    RanTwelve =>
        /\ "Rec" \in DOMAIN Last.ret.ratings
        /\ Last.ret.ratings["Rec"] = Last.args[2][12]
        /\ "recurrent" \in DOMAIN Last.ret.symbols
        /\ (Last.args[2][12] = Dec(0)) => Last.ret.symbols["recurrent"] = <<>>

----------------------------------------------------------------------------
(* Specification SpecPrompt: prompt_batch_ratings reads lines until         *)
(* parse_ratings accepts one.                                               *)

MaxPromptLines == 4

\* "a,b,c" for the tokens a, b, c
Csv(tokens) == join(<<",">>, [ i \in 1..Len(tokens) |-> <<tokens[i]>> ])

\* The lines typed at the prompt "Ratings: ".
PromptLines ==
    { <<>>, <<"/", "q">>, Csv(<<"1", "2">>),
      Csv(<<"0", "0", "0", "0", "0", "0", "0", "0", "0", "0", "0">>),
      Csv(<<"3", "2", "1", "0", "2", "1", "_", "0", "1", "0", "2">>),
      Csv(<<"3", "2", "1", "0", "2", "1", "4", "0", "1", "0", "2">>),
      Csv(<<"0", "0", "0", "0", "0", "0", "0", "0", "0", "0", "0", "0">>),
      Csv(<<"3", "2", "1", "0", "2", "1", "_", "0", "1", "0", "2", "0">>) }

\* What print() wrote: the pieces of the line.
RatingsHint ==
    << "  ", "<2192> ", "Use 11 values", " (0-3), comma-separated.",
       " Use _ for time with {pH:MM}." >>

Cancelled == << "\n", "  ", "Cancelled. Take care." >>

\* The lines read by input() so far.
InputsRead == Len(SelectSeq(calls, LAMBDA call : call.op = "input"))

\* One turn of the while loop: input(), parse_ratings, return or hint.
PromptBatchRatings ==
    /\ pc = "prompt_batch_ratings"
    /\ InputsRead < MaxPromptLines
    /\ \E val \in PromptLines :
        LET ratings == parse_ratings(val, local.planned_mins)
        IN  IF ~ratings.isNone
            THEN /\ calls' = calls \o << Call("input", <<>>, val),
                                        Call("prompt_batch_ratings", <<local.planned_mins>>,
                                             ratings.list) >>
                 /\ pc' = "returned"
            ELSE /\ calls' = calls \o << Call("input", <<>>, val),
                                        Call("print", <<RatingsHint>>, None) >>
                 /\ pc' = "prompt_batch_ratings"
    /\ UNCHANGED <<environ, Config, local>>

\* input() raises KeyboardInterrupt: a message, then sys.exit(0).
PromptBatchInterrupted ==
    /\ pc = "prompt_batch_ratings"
    /\ calls' = calls \o << Call("print", <<Cancelled>>, None), Call("sys.exit", <<0>>, None) >>
    /\ pc' = "exited"
    /\ UNCHANGED <<environ, Config, local>>

\* input() raises EOFError: sys.exit(0).
PromptBatchEndOfInput ==
    /\ pc = "prompt_batch_ratings"
    /\ calls' = Append(calls, Call("sys.exit", <<0>>, None))
    /\ pc' = "exited"
    /\ UNCHANGED <<environ, Config, local>>

InitPrompt ==
    /\ environ \in ConfigEnvs
    /\ Config = Reload
    /\ pc = "prompt_batch_ratings"
    /\ calls = <<>>
    /\ local \in { [planned_mins |-> planned_mins] : planned_mins \in {None, 45} }

NextPrompt ==
    \/ PromptBatchRatings
    \/ PromptBatchInterrupted
    \/ PromptBatchEndOfInput

SpecPrompt == InitPrompt /\ [][NextPrompt]_vars

Rejected(i) ==
    /\ i \in 1..Len(calls)
    /\ calls[i].op = "input"
    /\ parse_ratings(calls[i].ret, local.planned_mins).isNone

\* C26: prompt_batch_ratings returns only a vector that parse_ratings
\* accepted, and returns at the first accepted line (with the time rating at
\* index 6 filled in for "_"); each rejected line is followed by a hint that
\* names the accepted counts, 'Use 11 or 12 values', and by a new prompt.
C26_HintNamesCounts ==
    /\ \A i \in 1..Len(calls) :
          calls[i].op = "prompt_batch_ratings" =>
              /\ i = Len(calls)
              /\ calls[i - 1].op = "input"
              /\ Some(calls[i].ret) = parse_ratings(calls[i - 1].ret, local.planned_mins)
              /\ \A j \in 1..(i - 2) : calls[j].op = "input" => Rejected(j)
    /\ \A i \in 1..Len(calls) :
          Rejected(i) =>
              /\ i < Len(calls)
              /\ calls[i + 1].op = "print"
              /\ \E k \in 1..Len(calls[i + 1].args[1]) :
                    calls[i + 1].args[1][k] = "Use 11 or 12 values"
              /\ i + 1 = Len(calls) => pc = "prompt_batch_ratings"

----------------------------------------------------------------------------
(* main.py: the interaction loop and the prompts                            *)

UpperCase ==
    << "A", "B", "C", "D", "E", "F", "G", "H", "I", "J", "K", "L", "M",
       "N", "O", "P", "Q", "R", "S", "T", "U", "V", "W", "X", "Y", "Z" >>

LowerCase ==
    << "a", "b", "c", "d", "e", "f", "g", "h", "i", "j", "k", "l", "m",
       "n", "o", "p", "q", "r", "s", "t", "u", "v", "w", "x", "y", "z" >>

\* s.lower(), for ASCII letters
lower(s) ==
    [ i \in 1..Len(s) |->
        IF \E k \in 1..Len(UpperCase) : UpperCase[k] = s[i]
        THEN LowerCase[CHOOSE k \in 1..Len(UpperCase) : UpperCase[k] = s[i]]
        ELSE s[i] ]

\* s.split(): the runs of code points that are not whitespace
RECURSIVE split_whitespace(_)
split_whitespace(s) ==
    LET rest == lstrip(s)
        end == Min({ i \in 1..Len(rest) : rest[i] \in Whitespace } \cup { Len(rest) + 1 })
    IN  IF rest = <<>> THEN <<>>
        ELSE <<SubSeq(rest, 1, end - 1)>> \o split_whitespace(Drop(rest, end - 1))

\* LoopTurn with an unknown mode argument switching to detail mode.
LoopTurn_unknown_mode_is_detail(task_input, current_mode) ==
    LET cmd == lower(task_input)
        parts == split_whitespace(task_input)
        new_mode == lower(parts[2])
    IN  IF task_input = <<>> THEN [do |-> "continue", mode |-> current_mode]
        ELSE IF ~startswith(task_input, <<"/">>)
             THEN [do |-> "process_task", mode |-> current_mode]
        ELSE IF cmd = <<"/">> THEN [do |-> "continue", mode |-> current_mode]
        ELSE IF cmd \in { <<"/", "q", "u", "i", "t">>, <<"/", "q">> }
             THEN [do |-> "break", mode |-> current_mode]
        ELSE IF cmd \in { <<"/", "h", "e", "l", "p">>, <<"/", "h">> }
             THEN [do |-> "continue", mode |-> current_mode]
        ELSE IF startswith(cmd, <<"/", "m", "o", "d", "e">>) \/ startswith(cmd, <<"/", "m", " ">>)
             THEN IF Len(parts) >= 2
                  THEN IF new_mode \in { <<"b", "a", "t", "c", "h">>, <<"b">> }
                       THEN [do |-> "continue", mode |-> "batch"]
                       ELSE [do |-> "continue", mode |-> "detail"]
                  ELSE [do |-> "continue", mode |-> current_mode]
        ELSE [do |-> "continue", mode |-> current_mode]

\* What one turn of the loop of run_loop does with the stripped line
\* task_input: "continue" (empty line, menu, help, mode, unknown command),
\* "break" (quit) or "process_task", and the mode after it.
LoopTurn(task_input, current_mode) ==
    LET cmd == lower(task_input)
        parts == split_whitespace(task_input)
        new_mode == lower(parts[2])
    IN  IF task_input = <<>> THEN [do |-> "continue", mode |-> current_mode]
        ELSE IF ~startswith(task_input, <<"/">>)
             THEN [do |-> "process_task", mode |-> current_mode]
        ELSE IF cmd = <<"/">> THEN [do |-> "continue", mode |-> current_mode]
        ELSE IF cmd \in { <<"/", "q", "u", "i", "t">>, <<"/", "q">> }
             THEN [do |-> "break", mode |-> current_mode]
        ELSE IF cmd \in { <<"/", "h", "e", "l", "p">>, <<"/", "h">> }
             THEN [do |-> "continue", mode |-> current_mode]
        ELSE IF startswith(cmd, <<"/", "m", "o", "d", "e">>) \/ startswith(cmd, <<"/", "m", " ">>)
             THEN IF Len(parts) >= 2
                  THEN IF new_mode \in { <<"b", "a", "t", "c", "h">>, <<"b">> }
                       THEN [do |-> "continue", mode |-> "batch"]
                       ELSE IF new_mode \in { <<"d", "e", "t", "a", "i", "l">>, <<"d">> }
                       THEN [do |-> "continue", mode |-> "detail"]
                       ELSE [do |-> "continue", mode |-> current_mode]
                  ELSE [do |-> "continue", mode |-> current_mode]
        ELSE [do |-> "continue", mode |-> current_mode]

\* One part of a category line: the rating it stands for, or nothing.
CategoryRating(i, p, time_index, planned_mins) ==
    IF p = <<"_">> /\ time_index # None /\ i = time_index /\ planned_mins # None
    THEN <<get_time_score(planned_mins)>>
    ELSE IF InRatingMap(p) THEN <<Config.RATING_MAP[p[1]]>>
    ELSE <<>>

\* One turn of the loop of _prompt_category_ratings with the line val:
\* it returns None, returns the ratings, or prints a hint and asks again.
CategoryTurn(val, count, time_index, planned_mins) ==
    LET parts == split(RemoveSpaces(val))
        each == [ i \in 1..Len(parts) |->
                    CategoryRating(i - 1, parts[i], time_index, planned_mins) ]
    IN  IF startswith(strip(val), <<"/">>) THEN [do |-> "return", ratings |-> NoList]
        ELSE IF Len(parts) # count THEN [do |-> "again", ratings |-> NoList]
        ELSE IF \E i \in 1..Len(parts) : each[i] = <<>> THEN [do |-> "again", ratings |-> NoList]
        ELSE [do |-> "return", ratings |-> Some([ i \in 1..Len(parts) |-> each[i][1] ])]

\* The call of _prompt_category_ratings that prompt_grouped_batch_ratings
\* makes when it has the ratings so far: count and time_index.
CategoryOf(ratings) ==
    CASE Len(ratings) = 0 -> [count |-> 3, time_index |-> None]
      [] Len(ratings) = 3 -> [count |-> 2, time_index |-> None]
      [] Len(ratings) = 5 -> [count |-> 4, time_index |-> 1]
      [] Len(ratings) = 9 -> [count |-> 2, time_index |-> None]

\* What run_interactive returns for the ratings get_user_rating returned.
run_interactive_rated(parsed, ratings) ==
    LET planned_mins == parsed.planned_minutes
        s_impact == compute_impact(ratings[1], ratings[2], ratings[3])
        s_urgency == compute_urgency(ratings[4], ratings[5])
        s_execution == compute_execution(ratings[6], ratings[7], ratings[8], ratings[9])
        r_surprise == ratings[10]
        r_planned == ratings[11]
        impact_sym == get_impact_symbol(s_impact)
        urgency_sym == get_urgency_symbol(s_urgency)
        execution_sym == get_execution_symbol(s_execution)
        surprise_sym == get_surprise_symbol(r_surprise)
        planned_sym == get_planned_symbol(r_planned)
    IN  [ raised |-> "",
          output |-> format_output(impact_sym, surprise_sym, planned_sym,
                                   parsed.tags, parsed.text),
          urgency_sym |-> urgency_sym,
          execution_sym |-> execution_sym,
          has_surprise |-> surprise_sym # <<>>,
          scores |-> [ impact |-> s_impact, urgency |-> s_urgency, execution |-> s_execution ],
          ratings |-> [ L |-> ratings[1], Conf |-> ratings[2], G |-> ratings[3],
                        P |-> ratings[4], D |-> ratings[5], C |-> ratings[6],
                        T |-> ratings[7], R |-> ratings[8], F |-> ratings[9],
                        S |-> ratings[10], Pl |-> ratings[11] ],
          symbols |-> [ impact |-> impact_sym, urgency |-> urgency_sym,
                        execution |-> execution_sym, surprise |-> surprise_sym,
                        planned |-> planned_sym ],
          estimated_time_minutes |->
              IF planned_mins = None
              THEN estimate_time_minutes(ratings[6], ratings[8], ratings[10])
              ELSE None,
          planned_time_minutes |-> planned_mins,
          analysis |-> get_analysis_text(s_impact, s_execution, s_urgency, r_surprise) ]

----------------------------------------------------------------------------
(* Specification SpecLoop: run_loop reads lines; a task line starts         *)
(* process_task, whose prompts read the next lines.                         *)

MaxLoopTasks == 1

\* The lines typed at the prompt "> ".
LoopLines ==
    { <<>>,
      <<" ">>,
      <<"/">>,
      <<"/", "q">>,
      <<"/", "q", "u", "i", "t">>,
      <<" ", "/", "Q", " ">>,
      <<"/", "h">>,
      <<"/", "h", "e", "l", "p">>,
      <<"/", "m", " ", "d">>,
      <<"/", "m", " ", "b">>,
      <<"/", "m", "o", "d", "e", " ", "d", "e", "t", "a", "i", "l">>,
      <<"/", "m", "o", "d", "e", " ", "b", "a", "t", "c", "h">>,
      <<"/", "M", "O", "D", "E", " ", "D", "e", "t", "a", "i", "l">>,
      <<"/", "m", "o", "d", "e">>,
      <<"/", "m">>,
      <<"/", "m", "o", "d", "e", " ", "x">>,
      <<"/", "m", "o", "d", "e", "s", " ", "d">>,
      <<"/", "q", "u", "i", "t", " ", "n", "o", "w">>,
      <<"/", "f", "o", "o">>,
      <<"x">>,
      <<"{", "p", "0", ":", "4", "5", "}", " ", "y", " ">> }

\* The lines typed at the prompts of the four categories.
CategoryLines(ratings) ==
    CASE Len(ratings) = 0 ->
           { <<"3", ",", "3", ",", "3">>,
             <<"0", ",", " ", "3", ",", "0">>,
             <<"3", ",", "3">>,
             <<"3", ",", "x", ",", "3">>,
             <<"/", "q">>,
             <<>> }
      [] Len(ratings) = 3 ->
           { <<"3", ",", "3">>,
             <<"3">>,
             <<" ", "/">> }
      [] Len(ratings) = 5 ->
           { <<"3", ",", "_", ",", "3", ",", "3">>,
             <<"0", ",", "3", ",", "0", ",", "3">>,
             <<"3", ",", "3", ",", "3", ",", "3">>,
             <<"_", ",", "3", ",", "3", ",", "3">>,
             <<"/", "m", " ", "d">> }
      [] Len(ratings) = 9 ->
           { <<"0", ",", "3">>,
             <<"3", ",", "0">>,
             <<"0", ",", "3", ",", "0">>,
             <<"/">> }

\* The lines typed at the prompt of one rating in detail mode.
RatingLines(ratings) ==
    IF Len(ratings) \in {5, 7, 9}
    THEN { <<"0">>, <<"3">>, <<"4">>, <<"/">> }
    ELSE { <<"3">>, <<"3", " ">>, <<"/", "q">> }

\* The calls of process_task that have returned.
TasksDone == Len(SelectSeq(calls, LAMBDA call : call.op = "process_task"))

\* process_task(task_input, mode, ...) up to the first input() of its mode.
BeginTask(task_input, parsed) ==
    IF parsed.raised # ""
    THEN /\ pc' = "raised"
         /\ local' = [local EXCEPT !.task_input = task_input, !.error = "ValueError"]
    ELSE /\ pc' = IF local.current_mode = "detail"
                  THEN "get_user_rating" ELSE "_prompt_category_ratings"
         /\ local' = [local EXCEPT !.task_input = task_input,
                                   !.planned_mins = parsed.planned_minutes,
                                   !.ratings = <<>>]

\* The rest of process_task once its mode has returned result: print_result,
\* log_task, return to the loop.
EndTask(made, result) ==
    /\ calls' = calls \o made
                \o << Call("process_task", <<local.task_input, local.current_mode>>, result) >>
    /\ pc' = "run_loop"
    /\ local' = [local EXCEPT !.ratings = <<>>]

\* run_loop before its while loop: process_task(initial_task, ...) when a
\* task was given.
RunLoopStart ==
    /\ pc = "start"
    /\ IF local.task_input = <<>>
       THEN pc' = "run_loop" /\ UNCHANGED local
       ELSE BeginTask(local.task_input, parse_task(local.task_input))
    /\ UNCHANGED <<environ, Config, calls>>

\* One turn of the while loop of run_loop.
RunLoopRead ==
    /\ pc = "run_loop"
    /\ \E line \in LoopLines :
        LET turn == LoopTurn(strip(line), local.current_mode)
        IN  /\ turn.do = "process_task" => TasksDone < MaxLoopTasks
            /\ IF turn.do = "process_task"
               THEN BeginTask(strip(line), parse_task(strip(line)))
               ELSE /\ pc' = IF turn.do = "break" THEN "returned" ELSE "run_loop"
                    /\ local' = [local EXCEPT !.task_input = strip(line),
                                              !.current_mode = turn.mode]
    /\ UNCHANGED <<environ, Config, calls>>

\* input() of run_loop raises KeyboardInterrupt or EOFError: break.
RunLoopInterrupted ==
    /\ pc = "run_loop"
    /\ pc' = "returned"
    /\ UNCHANGED <<environ, Config, calls, local>>

\* run_batch after prompt_grouped_batch_ratings returned ratings.
RunBatchRated(ratings) ==
    LET estimated_mins == IF local.planned_mins = None
                          THEN estimate_time_minutes(ratings[6], ratings[8], ratings[10])
                          ELSE None
    IN  EndTask(<< Call("run_with_ratings", <<local.task_input, ratings, estimated_mins>>,
                        run_with_ratings(local.task_input, ratings, estimated_mins)) >>,
                run_with_ratings(local.task_input, ratings, estimated_mins))

\* One turn of the loop of _prompt_category_ratings, and what follows in
\* prompt_grouped_batch_ratings and run_batch: ratings.extend(None) raises
\* TypeError, which nothing catches.
PromptCategoryRatings ==
    /\ pc = "_prompt_category_ratings"
    /\ \E val \in CategoryLines(local.ratings) :
        LET category == CategoryOf(local.ratings)
            turn == CategoryTurn(val, category.count, category.time_index, local.planned_mins)
        IN  IF turn.do = "again"
            THEN UNCHANGED <<pc, local, calls>>
            ELSE IF turn.ratings.isNone
            THEN /\ pc' = "raised"
                 /\ local' = [local EXCEPT !.error = "TypeError"]
                 /\ UNCHANGED calls
            ELSE IF Len(local.ratings \o turn.ratings.list) < 11
            THEN /\ local' = [local EXCEPT !.ratings = local.ratings \o turn.ratings.list]
                 /\ UNCHANGED <<pc, calls>>
            ELSE RunBatchRated(local.ratings \o turn.ratings.list)
    /\ UNCHANGED <<environ, Config>>

\* The ratings after get_user_rating returned one more: the time rating
\* follows without input() when the task has planned minutes.
WithAutoTime(ratings) ==
    IF Len(ratings) = 6 /\ local.planned_mins # None
    THEN Append(ratings, get_time_score(local.planned_mins))
    ELSE ratings

\* One turn of the loop of get_user_rating, and what follows in
\* run_interactive.
GetUserRating ==
    /\ pc = "get_user_rating"
    /\ \E val \in RatingLines(local.ratings) :
        IF ~InRatingMap(val)
        THEN UNCHANGED <<pc, local, calls>>
        ELSE IF Len(WithAutoTime(Append(local.ratings, Config.RATING_MAP[val[1]]))) < 11
        THEN /\ local' = [local EXCEPT !.ratings =
                            WithAutoTime(Append(local.ratings, Config.RATING_MAP[val[1]]))]
             /\ UNCHANGED <<pc, calls>>
        ELSE EndTask(<<>>, run_interactive_rated(parse_task(local.task_input),
                              Append(local.ratings, Config.RATING_MAP[val[1]])))
    /\ UNCHANGED <<environ, Config>>

\* input() of a prompt raises KeyboardInterrupt or EOFError: sys.exit(0).
PromptInterrupted ==
    /\ pc \in {"_prompt_category_ratings", "get_user_rating"}
    /\ pc' = "exited"
    /\ local' = [local EXCEPT !.status = 0]
    /\ UNCHANGED <<environ, Config, calls>>

InitLoop ==
    /\ environ \in ConfigEnvs
    /\ Config = Reload
    /\ pc = "start"
    /\ calls = <<>>
    /\ local \in { [ current_mode |-> mode, task_input |-> initial_task,
                     planned_mins |-> None, ratings |-> <<>>, error |-> "", status |-> None ] :
                   mode \in {"batch", "detail"},
                   initial_task \in { <<>>, <<"x">>, <<"/", "q">>, LongDurationTag } }

NextLoop ==
    \/ RunLoopStart
    \/ RunLoopRead
    \/ RunLoopInterrupted
    \/ PromptCategoryRatings
    \/ GetUserRating
    \/ PromptInterrupted

SpecLoop == InitLoop /\ [][NextLoop]_vars

----------------------------------------------------------------------------
(* Batch mode: the category prompts                                         *)

\* An error that no handler caught while a prompt of batch mode was reading.
FailedAtCategoryPrompt ==
    /\ pc = "raised"
    /\ local.current_mode = "batch"
    /\ local.error = "TypeError"

\* C27: whatever lines are typed in batch mode, a line starting with "/" at
\* a category prompt included, run_batch does not fail with an unhandled
\* error, and what it passes to run_with_ratings is a complete vector: eleven
\* ratings of the rating scale, in the order of the categories.
C27_BatchNeverFails ==
    /\ ~FailedAtCategoryPrompt
    /\ \A i \in 1..Len(calls) :
          calls[i].op = "run_with_ratings" =>
              /\ Len(calls[i].args[2]) = 11
              /\ \A k \in 1..11 : calls[i].args[2][k] \in Range4

----------------------------------------------------------------------------
(* Batch mode and detail mode                                               *)

\* The vector of the eleven ratings a result reports.
VectorOf(result) ==
    << result.ratings.L, result.ratings.Conf, result.ratings.G, result.ratings.P,
       result.ratings.D, result.ratings.C, result.ratings.T, result.ratings.R,
       result.ratings.F, result.ratings.S, result.ratings.Pl >>

\* The result of detail mode and the result of batch mode for the same task
\* and ratings have the same output, estimate and symbols.
AgreesWithBatch(task_input, result) ==
    LET batch == run_batch_parsed(task_input, parse_task(task_input), VectorOf(result)).result
    IN  /\ result.output = batch.output
        /\ result.estimated_time_minutes = batch.estimated_time_minutes
        /\ result.symbols = batch.symbols

\* C28: batch mode and detail mode agree: a task rated in detail mode gives
\* the output string, the estimated minutes and the symbols that batch mode
\* gives for the same task and the same ratings, for a task with a
\* planned-time tag and for one without.
C28_ModesAgree ==
    \A i \in 1..Len(calls) :
        (calls[i].op = "process_task" /\ calls[i].args[2] = "detail") =>
            AgreesWithBatch(calls[i].args[1], calls[i].ret)

----------------------------------------------------------------------------
(* The command loop                                                         *)

ModeWords ==
    { <<"b", "a", "t", "c", "h">>, <<"b">>, <<"d", "e", "t", "a", "i", "l">>, <<"d">> }

\* The line is "/mode" or "/m " followed by batch, b, detail or d (in any case).
IsModeSwitch(line) ==
    /\ \/ startswith(lower(line), <<"/", "m", "o", "d", "e">>)
       \/ startswith(lower(line), <<"/", "m", " ">>)
    /\ Len(split_whitespace(line)) >= 2
    /\ lower(split_whitespace(line)[2]) \in ModeWords

IsQuit(line) == lower(line) \in { <<"/", "q", "u", "i", "t">>, <<"/", "q">> }

\* The step is a turn of the loop: run_loop has read a line, now the value of
\* its variable task_input.
LoopRead == pc = "run_loop" /\ (local' # local \/ pc' # "returned")

StartsTask == LoopRead /\ pc' \in {"_prompt_category_ratings", "get_user_rating", "raised"}

\* C29: current_mode is always 'batch' or 'detail'; it changes only in a turn
\* of the loop whose line is '/mode' or '/m ' followed by batch, b, detail or
\* d, so that an empty line, '/', '/help', '/h', an unknown mode argument, an
\* unknown command and a task line leave it as it was; no line starting with
\* '/' is passed to process_task; '/quit' or '/q' ends the loop, after which
\* no task is processed.
C29_ModeAndCommands ==
    /\ [](local.current_mode \in {"batch", "detail"})
    /\ [][ /\ local'.current_mode # local.current_mode =>
                (LoopRead /\ IsModeSwitch(local'.task_input))
           /\ StartsTask => ~startswith(local'.task_input, <<"/">>)
           /\ (LoopRead /\ IsQuit(local'.task_input)) => pc' = "returned"
           /\ pc # "returned" ]_vars

\* A task was processed in batch mode, then '/m d' switched to detail mode.
C29_Witness ==
    /\ pc = "run_loop"
    /\ \E i \in 1..Len(calls) : calls[i].op = "process_task" /\ calls[i].args[2] = "batch"
    /\ local.task_input = <<"/", "m", " ", "d">>
    /\ local.current_mode = "detail"

----------------------------------------------------------------------------
(* Specification SpecMain: main() from the parsed arguments to its return,  *)
(* its sys.exit or its call of run_loop.                                    *)

\* The values of args.task and args.ratings: None (not given) or a string.
MainTasks ==
    { NoList, Some(<<>>), Some(<<"x">>),
      Some(<<"{", "p", "0", ":", "4", "5", "}", " ", "y">>), Some(LongDurationTag) }

MainRatings ==
    { NoList, Some(<<>>), Some(Csv(<<"2", "2">>)),
      Some(Csv(<<"3", "2", "1", "0", "2", "1", "0", "0", "1", "0", "2">>)),
      Some(Csv(<<"3", "2", "1", "0", "2", "1", "_", "0", "1", "0", "2">>)) }

\* bool(x) of an Optional[str]
truthy(x) == ~x.isNone /\ x.list # <<>>

Exit(status) ==
    /\ calls' = Append(calls, Call("sys.exit", <<status>>, None))
    /\ pc' = "exited"
    /\ local' = [local EXCEPT !.status = status]

\* if args.profile: load_profile(args.profile)
MainProfile ==
    /\ pc = "main"
    /\ IF ~truthy(local.args.profile)
       THEN UNCHANGED <<environ, Config, calls>>
       ELSE \E file \in Profiles :
               /\ environ' = [key \in EnvKeys |->
                                 IF key \in DOMAIN file THEN file[key] ELSE environ[key]]
               /\ Config' = Reload'
               /\ calls' = Append(calls, Call("load_profile", <<file>>, None))
    /\ pc' = "validate_config"
    /\ UNCHANGED local

\* if args.validate_config: report and sys.exit(1) or sys.exit(0)
MainValidateConfig ==
    /\ pc = "validate_config"
    /\ IF local.args.validate_config
       THEN Exit(IF validate # <<>> THEN 1 ELSE 0)
       ELSE pc' = "demo" /\ UNCHANGED <<calls, local>>
    /\ UNCHANGED <<environ, Config>>

\* What run_demo() calls when it ran to its end with result.
DemoCalls(ran) ==
    << Call("run_with_ratings", <<CodePoints(Config.DEMO_TASK), ran.ratings, ran.estimated_mins>>,
            ran.result),
       Call("log_task", <<CodePoints(Config.DEMO_TASK), "demo-batch">>, ran.result),
       Call("run_with_ratings", <<CodePoints(Config.DEMO_TASK), ran.ratings, ran.estimated_mins>>,
            ran.result),
       Call("log_task", <<CodePoints(Config.DEMO_TASK), "demo-detail">>, ran.result) >>

MainDemoRan(ran) ==
    IF ran.raised = "SystemExit" THEN Exit(1)
    ELSE IF ran.raised # ""
    THEN /\ pc' = "raised"
         /\ local' = [local EXCEPT !.error = ran.raised]
         /\ UNCHANGED calls
    ELSE /\ calls' = calls \o DemoCalls(ran) \o << Call("sys.exit", <<0>>, None) >>
         /\ pc' = "exited"
         /\ local' = [local EXCEPT !.status = 0]

\* if args.demo: run_demo(); sys.exit(0)
MainDemo ==
    /\ pc = "demo"
    /\ IF local.args.demo
       THEN MainDemoRan(run_demo)
       ELSE pc' = "conflicts" /\ UNCHANGED <<calls, local>>
    /\ UNCHANGED <<environ, Config>>

\* MainConflicts without the check of --ratings against --detail and --batch.
MainConflicts_without_ratings_check ==
    /\ pc = "conflicts"
    /\ IF local.args.detail /\ local.args.batch THEN Exit(1)
       ELSE \E first_run \in BOOLEAN :
               /\ calls' = IF first_run /\ ~truthy(local.args.ratings) /\ ~local.args.quiet
                           THEN Append(calls, Call("show_welcome", <<>>, None))
                           ELSE calls
               /\ pc' = IF truthy(local.args.ratings) THEN "ratings" ELSE "run_loop"
               /\ UNCHANGED local
    /\ UNCHANGED <<environ, Config>>

\* The two checks of the mode flags, then the welcome of a first run.
MainConflicts ==
    /\ pc = "conflicts"
    /\ IF local.args.detail /\ local.args.batch THEN Exit(1)
       ELSE IF truthy(local.args.ratings) /\ (local.args.detail \/ local.args.batch)
       THEN Exit(1)
       ELSE \E first_run \in BOOLEAN :
               /\ calls' = IF first_run /\ ~truthy(local.args.ratings) /\ ~local.args.quiet
                           THEN Append(calls, Call("show_welcome", <<>>, None))
                           ELSE calls
               /\ pc' = IF truthy(local.args.ratings) THEN "ratings" ELSE "run_loop"
               /\ UNCHANGED local
    /\ UNCHANGED <<environ, Config>>

\* main() with --ratings once parse_task and parse_ratings have returned.
MainInlineRan(ran) ==
    IF ran.raised = "SystemExit" THEN Exit(1)
    ELSE IF ran.raised # ""
    THEN /\ pc' = "raised"
         /\ local' = [local EXCEPT !.error = ran.raised]
         /\ UNCHANGED calls
    ELSE /\ calls' = calls \o
                     << Call("run_with_ratings",
                             <<local.args.task.list, ran.ratings, ran.estimated_mins>>, ran.result),
                        Call("print_result", <<>>, ran.result),
                        Call("log_task", <<local.args.task.list, "inline">>, ran.result) >>
         /\ pc' = "returned"
         /\ UNCHANGED local

\* if args.ratings: the inline path
MainInline ==
    /\ pc = "ratings"
    /\ IF ~truthy(local.args.task) THEN Exit(1)
       ELSE MainInlineRan(main([task |-> local.args.task.list,
                                 ratings |-> local.args.ratings.list]))
    /\ UNCHANGED <<environ, Config>>

\* run_loop(args.task, mode, ...)
MainRunLoop ==
    /\ pc = "run_loop"
    /\ calls' = Append(calls, Call("run_loop",
                                   <<local.args.task,
                                     IF local.args.detail THEN "detail" ELSE "batch">>, None))
    /\ pc' = "in run_loop"
    /\ UNCHANGED <<environ, Config, local>>

InitMain ==
    /\ environ \in ConfigEnvs
    /\ Config = Reload
    /\ pc = "main"
    /\ calls = <<>>
    /\ local \in { [ args |-> [ task |-> task, ratings |-> ratings, detail |-> detail,
                                batch |-> batch, profile |-> profile,
                                validate_config |-> validate_config, demo |-> demo,
                                quiet |-> quiet ],
                     error |-> "", status |-> None ] :
                   task \in MainTasks, ratings \in MainRatings,
                   detail \in BOOLEAN, batch \in BOOLEAN, profile \in {NoList, Some(<<"p">>)},
                   validate_config \in BOOLEAN, demo \in BOOLEAN, quiet \in BOOLEAN }

NextMain ==
    \/ MainProfile
    \/ MainValidateConfig
    \/ MainDemo
    \/ MainConflicts
    \/ MainInline
    \/ MainRunLoop

SpecMain == InitMain /\ [][NextMain]_vars

\* main() has ended: returned, exited, raised, or handed over to run_loop.
MainEnded == pc \in {"returned", "exited", "raised", "in run_loop"}

CallsOf(op) == { i \in 1..Len(calls) : calls[i].op = op }

NothingScored == CallsOf("run_with_ratings") = {} /\ CallsOf("log_task") = {}

ExitedWithOne == pc = "exited" /\ local.status = 1

\* parse_task accepts args.task and parse_ratings rejects args.ratings.
RatingsRejected(args) ==
    /\ truthy(args.task)
    /\ parse_task(args.task.list).raised = ""
    /\ parse_ratings(args.ratings.list, parse_task(args.task.list).planned_minutes).isNone

RatingsAccepted(args) ==
    /\ truthy(args.task)
    /\ parse_task(args.task.list).raised = ""
    /\ ~parse_ratings(args.ratings.list, parse_task(args.task.list).planned_minutes).isNone

\* The four rejected combinations, with --ratings counted as given when
\* given(args.ratings) holds.
Conflicting(args, given(_)) ==
    \/ args.detail /\ args.batch
    \/ given(args.ratings) /\ (args.detail \/ args.batch)
    \/ given(args.ratings) /\ ~truthy(args.task)
    \/ given(args.ratings) /\ RatingsRejected(args)

ValidInline(args, given(_)) ==
    /\ given(args.ratings)
    /\ ~args.detail /\ ~args.batch
    /\ RatingsAccepted(args)

OneTaskInline ==
    /\ pc = "returned"
    /\ Cardinality(CallsOf("run_with_ratings")) = 1
    /\ Cardinality(CallsOf("log_task")) = 1
    /\ CallsOf("run_loop") = {}

IsGiven(x) == ~x.isNone

\* C30 as stated: --detail with --batch, --ratings with --detail or --batch,
\* --ratings without a task, and --ratings that parse_ratings rejects each
\* end with exit status 1 and no call of run_with_ratings or log_task; with
\* a valid task and ratings the inline path processes exactly one task and
\* returns without entering run_loop.
C30_RejectsBeforeScoring ==
    MainEnded =>
        /\ Conflicting(local.args, IsGiven) => ExitedWithOne /\ NothingScored
        /\ ValidInline(local.args, IsGiven) => OneTaskInline

Standalone(args) == args.validate_config \/ args.demo

\* C30: when neither --validate-config nor --demo is given, --detail with
\* --batch, a non-empty --ratings with --detail or --batch, a non-empty
\* --ratings without a task, and a non-empty --ratings that parse_ratings
\* rejects each end with exit status 1 and no call of run_with_ratings or
\* log_task; a non-empty --ratings that parse_ratings accepts, with a task
\* and without --detail and --batch, processes exactly one task and returns
\* without entering run_loop.
C30_RejectsUnlessStandalone ==
    (MainEnded /\ ~Standalone(local.args)) =>
        /\ Conflicting(local.args, truthy) => ExitedWithOne /\ NothingScored
        /\ ValidInline(local.args, truthy) => OneTaskInline

\* --ratings 2,2 for the task x under a loaded profile: rejected by
\* parse_ratings, exit status 1.
C30_Witness ==
    /\ ExitedWithOne
    /\ ~Standalone(local.args)
    /\ ~local.args.detail /\ ~local.args.batch
    /\ truthy(local.args.ratings)
    /\ RatingsRejected(local.args)
    /\ CallsOf("load_profile") # {}

====
